---- MODULE Spec2Model ----
(***************************************************************************)
(* Verification model of the fund advisory pipeline:                       *)
(*   - CriticAgent (src/src/agents/critic.py): the five static checks and  *)
(*     the score of a recommendation text;                                 *)
(*   - GroupChatManager (src/src/agents/manager.py) with its sub-agents:   *)
(*     the staged conversation and the generate / validate / regenerate    *)
(*     cycle.                                                              *)
(*                                                                         *)
(* Texts.  A text is a sequence of tokens [k, n]: k is the token's kind    *)
(* (a literal tag, a number, "%", white space, a word, plain filler) and   *)
(* n its payload (a number's value, otherwise its length in characters).   *)
(* The checks of the critic are string searches and regular expressions;   *)
(* they are modelled by the same searches over the token sequence.         *)
(* Values of <allocation> are counted in half percent (30% is 60), so      *)
(* every value and every sum is exactly representable as a Python float    *)
(* and the float arithmetic of the code is exact on them.                  *)
(*                                                                         *)
(* Chinese literals are written in pinyin:                                 *)
(*   conservative = bao shou xing, balanced = wen jian xing,               *)
(*   growth = ji ji xing, aggressive = ji jin xing;                        *)
(*   gupiaoxing = stock type, hunhexing = mixed type, zhishuxing = index   *)
(*   type, zhaiquanxing = bond type, hangyezhuti = sector theme,           *)
(*   chuangyeban = ChiNext board, kechuangban = STAR board.                *)
(***************************************************************************)
EXTENDS Integers, Sequences, FiniteSets, TLC

(***************************************************************************)
(* Tokens and the rendering of a text                                      *)
(***************************************************************************)
Tok(k, n) == [k |-> k, n |-> n]

Tag(name) == Tok(name, Len(name))

WS == Tok("ws", 1)

Chars(n) == Tok("chars", n)

Num(v) == Tok("num", v)

Pct == Tok("%", 1)

\* the words a text may carry, each with its length in characters
WordLen ==
  [gupiaoxing |-> 3, hunhexing |-> 3, zhishuxing |-> 3, zhaiquanxing |-> 3,
   hangyezhuti |-> 4, chuangyeban |-> 3, kechuangban |-> 3]

Words == DOMAIN WordLen

Word(w) == Tok(w, WordLen[w])

\* the keywords that occur inside a word as a substring
SubstringsOf(k) ==
  CASE k = "gupiaoxing" -> {"gupiaoxing", "gupiao"}
    [] k = "hunhexing" -> {"hunhexing", "hunhe"}
    [] k = "zhishuxing" -> {"zhishuxing", "zhishu"}
    [] OTHER -> {k}

\* Python's  kw in recommendation
Contains(text, kw) == \E i \in 1..Len(text) : kw \in SubstringsOf(text[i].k)

\* Python's  recommendation.count(tag)
Count(text, tag) == Cardinality({i \in 1..Len(text) : text[i].k = tag})

RECURSIVE TotalLen(_)
TotalLen(s) == IF s = <<>> THEN 0 ELSE Head(s).n + TotalLen(Tail(s))

RECURSIVE Strip(_)
\* Python's  str.strip() : white space removed at both ends
Strip(s) ==
  IF s = <<>> THEN <<>>
  ELSE IF Head(s).k = "ws" THEN Strip(Tail(s))
  ELSE IF s[Len(s)].k = "ws" THEN Strip(SubSeq(s, 1, Len(s) - 1))
  ELSE s

\* len(x.strip())
StripLen(s) == TotalLen(Strip(s))

RECURSIVE Flatten(_)
Flatten(ss) == IF ss = <<>> THEN <<>> ELSE Head(ss) \o Flatten(Tail(ss))

\* one <fund> element of a generated recommendation
\*   alloc : the number inside <allocation>, in half percent; -1: no element
\*   pct   : the number is followed by "%"
\*   warn  : characters of the risk warning; -1: no <risk_warning> element
\*   word  : the fund type named in <name>
RenderFund(f) ==
  <<Tag("<fund>"), WS, Tag("<code>"), Chars(6), Tag("</code>"), WS,
    Tag("<name>"), Chars(4), Word(f.word), Tag("</name>"), WS>>
  \o (IF f.alloc < 0 THEN <<>>
      ELSE <<Tag("<allocation>"), Num(f.alloc)>>
           \o (IF f.pct THEN <<Pct>> ELSE <<>>)
           \o <<Tag("</allocation>"), WS>>)
  \o <<Tag("<rationale>"), Chars(9), Tag("</rationale>"), WS>>
  \o (IF f.warn < 0 THEN <<>>
      ELSE <<Tag("<risk_warning>"), WS, Chars(f.warn), WS,
             Tag("</risk_warning>"), WS>>)
  \o <<Tag("<confidence>"), Chars(4), Tag("</confidence>"), WS, Tag("</fund>"), WS>>

RenderFunds(fs) == Flatten([i \in 1..Len(fs) |-> RenderFund(fs[i])])

RenderDisclaimer(d) ==
  CASE d = "ok" -> <<Tag("<disclaimer>"), WS, Chars(30), WS, Tag("</disclaimer>"), WS>>
    [] d = "short" -> <<Tag("<disclaimer>"), WS, Chars(8), WS, Tag("</disclaimer>"), WS>>
    [] d = "open" -> <<Tag("<disclaimer>"), WS, Chars(30), WS>>
    [] d = "reversed" -> <<Tag("</disclaimer>"), WS, Chars(30), Tag("<disclaimer>"), WS>>
    [] OTHER -> <<>>

\* The token sequence of a text.  kind "xml" is a text in the output format
\* of FundExpertAgent.SYSTEM_PROMPT; the other kinds are the fixed messages
\* of the agents, which carry no tag and no keyword.
Render(t) ==
  IF t.kind # "xml" THEN <<Chars(20)>>
  ELSE (CASE t.top = "full" ->
               <<WS, Tag("<analysis>"), Chars(30), Tag("</analysis>"), WS,
                 Tag("<fund_evaluation>"), Chars(40), Tag("</fund_evaluation>"), WS>>
          [] t.top = "unclosed" ->
               <<WS, Tag("<analysis>"), Chars(30), WS,
                 Tag("<fund_evaluation>"), Chars(40), Tag("</fund_evaluation>"), WS>>
          [] OTHER -> <<WS>>)
       \o <<Tag("<recommendation>"), WS>> \o RenderFunds(t.funds)
       \o <<Tag("</recommendation>"), WS>>
       \o RenderDisclaimer(t.disc)

(***************************************************************************)
(* CriticAgent                                                             *)
(***************************************************************************)
RISK_CONFIG_LEVELS == {"conservative", "balanced", "growth", "aggressive"}

\* index of the first token of kind k at or after position i; 0 if none
RECURSIVE IndexFrom(_, _, _)
IndexFrom(text, k, i) ==
  IF i > Len(text) THEN 0
  ELSE IF text[i].k = k THEN i
  ELSE IndexFrom(text, k, i + 1)

\* re.findall(r"<open>(.*?)</close>", text, re.DOTALL): the contents of the
\* non-overlapping lazy matches, scanning from position i
RECURSIVE FindAllBetween(_, _, _, _)
FindAllBetween(text, open, close, i) ==
  LET o == IndexFrom(text, open, i)
      c == IF o = 0 THEN 0 ELSE IndexFrom(text, close, o + 1)
  IN IF o = 0 \/ c = 0 THEN <<>>
     ELSE <<SubSeq(text, o + 1, c - 1)>> \o FindAllBetween(text, open, close, c + 1)

\* position after the white space starting at i  (the \s* of the pattern)
RECURSIVE SkipWS(_, _)
SkipWS(text, i) ==
  IF i <= Len(text) /\ text[i].k = "ws" THEN SkipWS(text, i + 1) ELSE i

\* does  <allocation>(\d+(?:\.\d+)?)\s*%</allocation>  match at position i
AllocMatchAt(text, i) ==
  /\ text[i].k = "<allocation>"
  /\ i + 1 <= Len(text) /\ text[i + 1].k = "num"
  /\ LET j == SkipWS(text, i + 2)
     IN /\ j + 1 <= Len(text)
        /\ text[j].k = "%"
        /\ text[j + 1].k = "</allocation>"

\* re.findall(allocation_pattern, recommendation): the captured numbers
RECURSIVE FindAllAllocations(_, _)
FindAllAllocations(text, i) ==
  IF i > Len(text) THEN <<>>
  ELSE IF AllocMatchAt(text, i)
       THEN <<text[i + 1].n>> \o FindAllAllocations(text, i + 1)
       ELSE FindAllAllocations(text, i + 1)

RECURSIVE SumSeq(_)
SumSeq(s) == IF s = <<>> THEN 0 ELSE Head(s) + SumSeq(Tail(s))

Abs(x) == IF x < 0 THEN -x ELSE x

required_tags == <<"analysis", "fund_evaluation", "recommendation", "disclaimer">>

fund_tags == <<"code", "name", "allocation", "rationale", "risk_warning", "confidence">>

OpenTag(tag) ==
  CASE tag = "analysis" -> "<analysis>"
    [] tag = "fund_evaluation" -> "<fund_evaluation>"
    [] tag = "recommendation" -> "<recommendation>"
    [] tag = "disclaimer" -> "<disclaimer>"
    [] tag = "code" -> "<code>"
    [] tag = "name" -> "<name>"
    [] tag = "allocation" -> "<allocation>"
    [] tag = "rationale" -> "<rationale>"
    [] tag = "risk_warning" -> "<risk_warning>"
    [] tag = "confidence" -> "<confidence>"

CloseTag(tag) ==
  CASE tag = "analysis" -> "</analysis>"
    [] tag = "fund_evaluation" -> "</fund_evaluation>"
    [] tag = "recommendation" -> "</recommendation>"
    [] tag = "disclaimer" -> "</disclaimer>"

\* one entry of ValidationResult.feedback: the message's kind, the tag or
\* keyword it names, and the number it prints
Issue(code, arg, n) == [code |-> code, arg |-> arg, n |-> n]

Checked(valid, feedback) == [valid |-> valid, feedback |-> feedback]

\* CriticAgent._validate_xml_format
_validate_xml_format(recommendation) ==
  LET unclosed == SelectSeq(required_tags,
                    LAMBDA tag : Count(recommendation, OpenTag(tag))
                                 # Count(recommendation, CloseTag(tag)))
      missing == SelectSeq(fund_tags,
                    LAMBDA tag : ~Contains(recommendation, OpenTag(tag)))
      feedback == [i \in 1..Len(unclosed) |->
                     Issue("tag_not_closed", unclosed[i],
                           Count(recommendation, OpenTag(unclosed[i])))]
                  \o [i \in 1..Len(missing) |-> Issue("tag_missing", missing[i], 0)]
  IN Checked(Len(feedback) = 0, feedback)

\* the tolerance of the allocation sum, 1 percent, in half percent
AllocTolerance == 2

\* the expected allocation sum, 100 percent, in half percent
AllocTotal == 200

\* mutant: a tolerance of 10 percent instead of 1
_validate_allocation_sum_loose(recommendation) ==
  LET allocations == FindAllAllocations(recommendation, 1)
      total == SumSeq(allocations)
  IN IF allocations = <<>>
     THEN Checked(FALSE, <<Issue("no_allocation", "", 0)>>)
     ELSE IF Abs(total - AllocTotal) > 10 * AllocTolerance
          THEN Checked(FALSE, <<Issue("allocation_sum", "", total)>>)
          ELSE Checked(TRUE, <<>>)

\* mutant: >= instead of > at the edge of the tolerance
_validate_allocation_sum_strict(recommendation) ==
  LET allocations == FindAllAllocations(recommendation, 1)
      total == SumSeq(allocations)
  IN IF allocations = <<>>
     THEN Checked(FALSE, <<Issue("no_allocation", "", 0)>>)
     ELSE IF Abs(total - AllocTotal) >= AllocTolerance
          THEN Checked(FALSE, <<Issue("allocation_sum", "", total)>>)
          ELSE Checked(TRUE, <<>>)

\* CriticAgent._validate_allocation_sum
_validate_allocation_sum(recommendation) ==
  LET allocations == FindAllAllocations(recommendation, 1)
      total == SumSeq(allocations)
  IN IF allocations = <<>>
     THEN Checked(FALSE, <<Issue("no_allocation", "", 0)>>)
     ELSE IF Abs(total - AllocTotal) > AllocTolerance
          THEN Checked(FALSE, <<Issue("allocation_sum", "", total)>>)
          ELSE Checked(TRUE, <<>>)

\* a risk warning shorter than this is not specific
MinWarningLen == 5

\* CriticAgent._validate_risk_disclosure
_validate_risk_disclosure(recommendation) ==
  LET risk_warnings == FindAllBetween(recommendation, "<risk_warning>",
                                      "</risk_warning>", 1)
      funds == FindAllBetween(recommendation, "<fund>", "</fund>", 1)
      bare == SelectSeq([i \in 1..Len(funds) |-> i],
                LAMBDA i : ~Contains(funds[i], "<risk_warning>"))
      simple == SelectSeq(risk_warnings, LAMBDA w : StripLen(w) < MinWarningLen)
      feedback == [i \in 1..Len(bare) |-> Issue("fund_without_warning", "", bare[i])]
                  \o [i \in 1..Len(simple) |-> Issue("warning_too_simple", "", 0)]
  IN IF risk_warnings = <<>>
     THEN Checked(FALSE, <<Issue("no_risk_warning", "", 0)>>)
     ELSE Checked(Len(feedback) = 0, feedback)

forbidden_keywords == <<"gupiaoxing", "hangyezhuti", "chuangyeban", "kechuangban">>

stock_keywords == <<"gupiao", "hunhe", "zhishu">>

\* mutant: the banned types are looked for whatever the tier
_validate_risk_level_match_any_tier(recommendation, risk_level) ==
  IF risk_level \notin RISK_CONFIG_LEVELS
  THEN Checked(TRUE, <<Issue("unknown_risk_level", risk_level, 0)>>)
  ELSE LET found == SelectSeq(forbidden_keywords, LAMBDA kw : Contains(recommendation, kw))
           has_stock == \E i \in 1..Len(stock_keywords) :
                           Contains(recommendation, stock_keywords[i])
           feedback == [i \in 1..Len(found) |-> Issue("forbidden_type", found[i], 0)]
                       \o (IF risk_level = "aggressive" /\ ~has_stock
                           THEN <<Issue("no_stock_fund", "", 0)>> ELSE <<>>)
       IN Checked(Len(feedback) = 0, feedback)

\* CriticAgent._validate_risk_level_match
_validate_risk_level_match(recommendation, risk_level) ==
  IF risk_level \notin RISK_CONFIG_LEVELS
  THEN Checked(TRUE, <<Issue("unknown_risk_level", risk_level, 0)>>)
  ELSE LET found == IF risk_level = "conservative"
                    THEN SelectSeq(forbidden_keywords,
                                   LAMBDA kw : Contains(recommendation, kw))
                    ELSE <<>>
           has_stock == \E i \in 1..Len(stock_keywords) :
                           Contains(recommendation, stock_keywords[i])
           feedback == [i \in 1..Len(found) |-> Issue("forbidden_type", found[i], 0)]
                       \o (IF risk_level = "aggressive" /\ ~has_stock
                           THEN <<Issue("no_stock_fund", "", 0)>> ELSE <<>>)
       IN Checked(Len(feedback) = 0, feedback)

\* a disclaimer shorter than this is too simple
MinDisclaimerLen == 10

\* CriticAgent._validate_disclaimer
_validate_disclaimer(recommendation) ==
  IF ~Contains(recommendation, "<disclaimer>")
     \/ ~Contains(recommendation, "</disclaimer>")
  THEN Checked(FALSE, <<Issue("no_disclaimer", "", 0)>>)
  ELSE LET found == FindAllBetween(recommendation, "<disclaimer>", "</disclaimer>", 1)
           feedback == IF found # <<>>
                       THEN (IF StripLen(found[1]) < MinDisclaimerLen
                             THEN <<Issue("disclaimer_too_simple", "", 0)>> ELSE <<>>)
                       ELSE <<Issue("disclaimer_malformed", "", 0)>>
       IN Checked(Len(feedback) = 0, feedback)

Min(a, b) == IF a < b THEN a ELSE b

Max(a, b) == IF a > b THEN a ELSE b

\* the deductions of the five checks and the pass mark
DeductXml == 20

DeductAllocation == 25

DeductDisclosure == 20

DeductRiskLevel == 25

DeductDisclaimer == 10

PassScore == 60

ValidationResult(passed, feedback, score) ==
  [passed |-> passed, feedback |-> feedback, score |-> score]

\* mutant: the pass mark itself does not pass
ScoredAbovePassMark(feedback, score) == ValidationResult(score > PassScore, feedback, score)

\* the score and the result of validate, from the outcomes of the checks
Scored(feedback, score) == ValidationResult(score >= PassScore, feedback, score)

\* mutant: the checks after a failed format check are not counted
DeductedUntilMalformed(xml, allocation, disclosure, risk, disclaimer) ==
  IF ~xml.valid THEN 100 - DeductXml
  ELSE 100 - (IF allocation.valid THEN 0 ELSE DeductAllocation)
           - (IF disclosure.valid THEN 0 ELSE DeductDisclosure)
           - (IF risk.valid THEN 0 ELSE DeductRiskLevel)
           - (IF disclaimer.valid THEN 0 ELSE DeductDisclaimer)

\* mutant: every failing check costs twice as much
DeductedTwice(xml, allocation, disclosure, risk, disclaimer) ==
  100 - 2 * (IF xml.valid THEN 0 ELSE DeductXml)
      - 2 * (IF allocation.valid THEN 0 ELSE DeductAllocation)
      - 2 * (IF disclosure.valid THEN 0 ELSE DeductDisclosure)
      - 2 * (IF risk.valid THEN 0 ELSE DeductRiskLevel)
      - 2 * (IF disclaimer.valid THEN 0 ELSE DeductDisclaimer)

Deducted(xml, allocation, disclosure, risk, disclaimer) ==
  100 - (IF xml.valid THEN 0 ELSE DeductXml)
      - (IF allocation.valid THEN 0 ELSE DeductAllocation)
      - (IF disclosure.valid THEN 0 ELSE DeductDisclosure)
      - (IF risk.valid THEN 0 ELSE DeductRiskLevel)
      - (IF disclaimer.valid THEN 0 ELSE DeductDisclaimer)

Combined(xml, allocation, disclosure, risk, disclaimer) ==
  Scored(xml.feedback \o allocation.feedback \o disclosure.feedback
           \o risk.feedback \o disclaimer.feedback,
         Max(0, Min(100, Deducted(xml, allocation, disclosure, risk, disclaimer))))

\* CriticAgent.validate, on the token sequence of the recommendation
validate(recommendation, user_profile, risk_level) ==
  Combined(_validate_xml_format(recommendation),
           _validate_allocation_sum(recommendation),
           _validate_risk_disclosure(recommendation),
           _validate_risk_level_match(recommendation, risk_level),
           _validate_disclaimer(recommendation))

(***************************************************************************)
(* Texts of the model                                                      *)
(***************************************************************************)
Text(kind, top, funds, disc, words, nums) ==
  [kind |-> kind, top |-> top, funds |-> funds, disc |-> disc,
   words |-> words, nums |-> nums]

\* a fixed message of the program (kind names the message)
Message(kind) == Text(kind, "", <<>>, "", {}, <<>>)

\* a recommendation in the XML output format
Xml(top, funds, disc) == Text("xml", top, funds, disc, {}, <<>>)

Fund(alloc, pct, warn, word) ==
  [alloc |-> alloc, pct |-> pct, warn |-> warn, word |-> word]

NoText == Message("")

NoResult == ValidationResult(FALSE, <<>>, -1)

\* the valid recommendation of critic.py's first test case: 30% and 70%
ScenarioA ==
  Xml("full", <<Fund(60, TRUE, 12, "hunhexing"), Fund(140, TRUE, 11, "hunhexing")>>, "ok")

\* the same text with allocations of 50% and 40%
ScenarioB ==
  Xml("full", <<Fund(100, TRUE, 12, "hunhexing"), Fund(80, TRUE, 11, "hunhexing")>>, "ok")

\* the text of critic.py's second test case: 50% and 40%, a four-character
\* risk warning, no disclaimer, no analysis section
TestCase2 ==
  Xml("bare", <<Fund(100, TRUE, 8, "hunhexing"), Fund(80, TRUE, 4, "hunhexing")>>, "absent")

(***************************************************************************)
(* The validator alone: validate applied to one text and one risk level    *)
(***************************************************************************)
VARIABLES c_text, c_level, c_result

critic_vars == <<c_text, c_level, c_result>>

\* the largest number of <fund> elements of a text given to the validator
MaxFunds == 2

FirstFunds ==
  {Fund(a, TRUE, w, x) : a \in {-1, 100}, w \in {-1, 4, 8},
                         x \in {"zhaiquanxing", "gupiaoxing", "hunhexing", "chuangyeban"}}

\* with a first fund of 50%: sums of 90, 98.5, 99, 100, 101 and 101.5 percent
MoreFunds ==
  {Fund(a, TRUE, 8, "zhaiquanxing") : a \in {80, 97, 98, 100, 102, 103}}
  \cup {Fund(100, FALSE, 8, "zhaiquanxing")}

\* a further fund of 1%
ExtraFunds == {Fund(2, TRUE, 8, "zhaiquanxing")}

RECURSIVE FundLists(_)
FundLists(n) ==
  IF n = 0 THEN {<<>>}
  ELSE IF n = 1 THEN {<<>>} \cup {<<f>> : f \in FirstFunds}
  ELSE FundLists(n - 1)
       \cup {Append(fs, f) : fs \in {l \in FundLists(n - 1) : Len(l) = n - 1},
                             f \in (IF n = 2 THEN MoreFunds ELSE ExtraFunds)}

CriticTexts ==
  {Xml(top, fs, d) : top \in {"full", "unclosed", "bare"}, fs \in FundLists(MaxFunds),
                     d \in {"ok", "short", "reversed", "absent"}}
  \cup {ScenarioA, ScenarioB, TestCase2, Message("noFunds")}

CriticLevels == RISK_CONFIG_LEVELS \cup {""}

(***************************************************************************)
(* The generator.  llm.chat returns a text or raises; a free-form reply    *)
(* (kind "chat") is described by the markers and keywords it contains      *)
(* (words) and the numbers it writes before the character wan (nums).      *)
(***************************************************************************)
Chat(words, nums) == Text("chat", "", <<>>, "", words, nums)

\* llm.chat raised an exception
Raised == Message("raise")

LLMRaises(out) == out.kind = "raise"

\* Python's  any(kw in text for kw in kws)
AnyIn(text, kws) == text.words \cap kws # {}

(***************************************************************************)
(* RequirementAgent                                                        *)
(***************************************************************************)
EmptyProfile ==
  [investment_amount |-> -1, investment_period |-> "", investment_goal |-> "",
   experience |-> ""]

RequirementAgent_init ==
  [conversation_history |-> <<>>, user_profile |-> EmptyProfile, is_complete |-> FALSE]

\* RequirementAgent._extract_profile; -1 and "" stand for an absent key
_extract_profile(user_profile, response) ==
  LET amounts == response.nums
      p1 == IF "wan" \in response.words /\ amounts # <<>>
            THEN [user_profile EXCEPT !.investment_amount = amounts[Len(amounts)] * 10000]
            ELSE user_profile
      p2 == IF AnyIn(response, {"duanqi", "1nianyinei", "jigeyue"})
              THEN [p1 EXCEPT !.investment_period = "short"]
            ELSE IF AnyIn(response, {"zhongqi", "1-3nian", "yiliangnian"})
              THEN [p1 EXCEPT !.investment_period = "medium"]
            ELSE IF AnyIn(response, {"changqi", "3nianyishang", "sannianyishang", "wunian"})
              THEN [p1 EXCEPT !.investment_period = "long"]
            ELSE p1
      p3 == IF AnyIn(response, {"baozhi", "wenjian", "fengxianxiao"})
              THEN [p2 EXCEPT !.investment_goal = "steady"]
            ELSE IF AnyIn(response, {"gaoshouyi", "jijin", "fengxianda"})
              THEN [p2 EXCEPT !.investment_goal = "enterprising"]
            ELSE [p2 EXCEPT !.investment_goal = "steady"]
      p4 == IF AnyIn(response, {"meiyoujingyan", "diyici", "xinshou"})
              THEN [p3 EXCEPT !.experience = "novice"]
            ELSE IF AnyIn(response, {"youyixiejingyan", "maiguo"})
              THEN [p3 EXCEPT !.experience = "experienced"]
            ELSE IF AnyIn(response, {"jingyanfengfu", "laoshou", "duonian"})
              THEN [p3 EXCEPT !.experience = "senior"]
            ELSE p3
  IN p4

\* RequirementAgent.process from the point where llm.chat returns or raises
\* out; agent is the agent at that point
RequirementAgent_resumed(agent, out) ==
  IF LLMRaises(out)
  THEN [agent |-> agent, response |-> Message("requirementError")]
  ELSE LET done == "REQUIREMENT_DONE" \in out.words
       IN [agent |->
             [conversation_history |-> Append(agent.conversation_history, "assistant"),
              user_profile |-> IF done THEN _extract_profile(agent.user_profile, out)
                               ELSE agent.user_profile,
              is_complete |-> agent.is_complete \/ done],
           response |-> out]

\* RequirementAgent.process: has_llm is  self.llm is not None,  out is what
\* llm.chat returns or raises.  Histories of the sub-agents keep the roles.
RequirementAgent_process(agent, has_llm, user_input, out) ==
  IF ~has_llm THEN [agent |-> agent, response |-> Message("noLLM")]
  ELSE RequirementAgent_resumed(
         [agent EXCEPT !.conversation_history = Append(@, "user")], out)

(***************************************************************************)
(* RiskAgent                                                               *)
(***************************************************************************)
RiskAgent_init ==
  [conversation_history |-> <<>>, risk_level |-> "", risk_score |-> 0,
   is_complete |-> FALSE]

\* RiskAgent._extract_risk_level
_extract_risk_level(agent, response) ==
  IF "conservative" \in response.words
    THEN [agent EXCEPT !.risk_level = "conservative", !.risk_score = 20]
  ELSE IF "balanced" \in response.words
    THEN [agent EXCEPT !.risk_level = "balanced", !.risk_score = 50]
  ELSE IF "growth" \in response.words
    THEN [agent EXCEPT !.risk_level = "growth", !.risk_score = 75]
  ELSE IF "aggressive" \in response.words
    THEN [agent EXCEPT !.risk_level = "aggressive", !.risk_score = 90]
  ELSE [agent EXCEPT !.risk_level = "balanced", !.risk_score = 50]

\* mutant: an exception of the generator is answered like an ordinary reply
RiskAgent_process_silent(agent, has_llm, user_input, out) ==
  IF ~has_llm THEN [agent |-> agent, response |-> Message("noLLM")]
  ELSE LET a1 == [agent EXCEPT !.conversation_history = Append(@, "user")]
       IN IF LLMRaises(out)
          THEN [agent |-> a1, response |-> Chat({}, <<>>)]
          ELSE LET done == "RISK_DONE" \in out.words
                   a2 == IF done
                         THEN _extract_risk_level([a1 EXCEPT !.is_complete = TRUE], out)
                         ELSE a1
               IN [agent |-> [a2 EXCEPT !.conversation_history = Append(@, "assistant")],
                   response |-> out]

\* RiskAgent.process
RiskAgent_process(agent, has_llm, user_input, out) ==
  IF ~has_llm THEN [agent |-> agent, response |-> Message("noLLM")]
  ELSE LET a1 == [agent EXCEPT !.conversation_history = Append(@, "user")]
       IN IF LLMRaises(out)
          THEN [agent |-> a1, response |-> Message("riskError")]
          ELSE LET done == "RISK_DONE" \in out.words
                   a2 == IF done
                         THEN _extract_risk_level([a1 EXCEPT !.is_complete = TRUE], out)
                         ELSE a1
               IN [agent |-> [a2 EXCEPT !.conversation_history = Append(@, "assistant")],
                   response |-> out]

(***************************************************************************)
(* FundExpertAgent                                                         *)
(***************************************************************************)
FundExpertAgent_init ==
  [user_profile |-> EmptyProfile, risk_level |-> "", screened_funds |-> <<>>,
   recommendation |-> Message("")]

\* one row of the ranking the resolver returns (returns in percent)
Ranked(code, ret) == [fund_code |-> code, return_1y |-> ret]

\* what the cache holds when funds are screened:
\*   _get_performance_cache: statistics of the funds with two or more
\*   valuation points; _get_rating_cache: the latest rating;
\*   _get_size_cache: the net asset size in yi, 0 when it is not a number
performance_cache ==
  [F1 |-> [max_drawdown |-> 4, volatility |-> 2],
   F2 |-> [max_drawdown |-> 18, volatility |-> 14],
   F3 |-> [max_drawdown |-> 3, volatility |-> 2]]

rating_cache == [F1 |-> 4, F2 |-> 2, F3 |-> 5, F4 |-> 5]

size_cache == [F1 |-> 10, F3 |-> 50, F4 |-> 20]

\* dict.get(code, default)
Get(cache, code, default) == IF code \in DOMAIN cache THEN cache[code] ELSE default

risk_thresholds(risk_level) ==
  CASE risk_level = "conservative" -> [max_drawdown |-> 5, volatility |-> 3, min_rating |-> 3]
    [] risk_level = "balanced" -> [max_drawdown |-> 10, volatility |-> 8, min_rating |-> 3]
    [] risk_level = "growth" -> [max_drawdown |-> 20, volatility |-> 15, min_rating |-> 2]
    [] risk_level = "aggressive" -> [max_drawdown |-> 50, volatility |-> 30, min_rating |-> 0]
    [] OTHER -> [max_drawdown |-> 15, volatility |-> 20, min_rating |-> 2]

\* the size band of the screening, in yi
MinSize == 2

MaxSize == 500

\* the length of the shortlist
ShortlistSize == 50

\* the body of the screening loop: is the fund kept
Screened(fund, thresholds) ==
  LET code == fund.fund_code
      perf == Get(performance_cache, code, [max_drawdown |-> 100, volatility |-> 50])
      rating_3y == Get(rating_cache, code, 0)
      size_value == Get(size_cache, code, 0)
  IN /\ ~(fund.return_1y <= 0)
     /\ ~(perf.max_drawdown > thresholds.max_drawdown)
     /\ ~(perf.volatility > thresholds.volatility)
     /\ ~(rating_3y < thresholds.min_rating)
     /\ ~(size_value > 0 /\ (size_value < MinSize \/ size_value > MaxSize))

\* list.sort(key=return_1y, reverse=True): stable, largest first
RECURSIVE InsertByReturn(_, _)
InsertByReturn(sorted, fund) ==
  IF sorted = <<>> THEN <<fund>>
  ELSE IF Head(sorted).return_1y >= fund.return_1y
       THEN <<Head(sorted)>> \o InsertByReturn(Tail(sorted), fund)
       ELSE <<fund>> \o sorted

RECURSIVE SortByReturn(_)
SortByReturn(funds) ==
  IF funds = <<>> THEN <<>>
  ELSE InsertByReturn(SortByReturn(SubSeq(funds, 1, Len(funds) - 1)), funds[Len(funds)])

\* FundExpertAgent._screen_funds; ranking is what get_fund_ranking returns,
\* ranking.raises when the call raises
_screen_funds(agent, ranking) ==
  IF ranking.raises THEN [agent EXCEPT !.screened_funds = <<>>]
  ELSE LET thresholds == risk_thresholds(agent.risk_level)
           screened == SortByReturn(SelectSeq(ranking.funds,
                                              LAMBDA f : Screened(f, thresholds)))
       IN [agent EXCEPT !.screened_funds =
                           SubSeq(screened, 1, Min(ShortlistSize, Len(screened)))]

\* FundExpertAgent.set_user_info
set_user_info(agent, user_profile, risk_level, ranking) ==
  _screen_funds([agent EXCEPT !.user_profile = user_profile, !.risk_level = risk_level],
                ranking)

\* FundExpertAgent.generate_recommendation; called: llm.chat was invoked
generate_recommendation(agent, has_llm, out) ==
  IF ~has_llm
    THEN [agent |-> agent, response |-> Message("noLLM"), called |-> FALSE]
  ELSE IF agent.screened_funds = <<>>
    THEN [agent |-> agent, response |-> Message("noFunds"), called |-> FALSE]
  ELSE IF LLMRaises(out)
    THEN [agent |-> agent, response |-> Message("generateError"), called |-> TRUE]
  ELSE [agent |-> [agent EXCEPT !.recommendation = out], response |-> out,
        called |-> TRUE]

\* FundExpertAgent.get_top_funds
get_top_funds(agent, n) == SubSeq(agent.screened_funds, 1, Min(n, Len(agent.screened_funds)))

(***************************************************************************)
(* GroupChatManager.  A manager value m holds the fields of the object     *)
(* and of its sub-agents; a reply is the sequence of the pieces that the   *)
(* code concatenates into the returned string.                             *)
(***************************************************************************)
STAGE_REQUIREMENT == "requirement"

STAGE_RISK == "risk"

STAGE_RECOMMENDATION == "recommendation"

STAGE_VALIDATION == "validation"

STAGE_COMPLETE == "complete"

\* a text, as a piece of a reply
TextPart(t) == [text |-> t, label |-> "", score |-> -1, feedback |-> <<>>]

\* the trailer "validation passed, score N/100"
PassedLabel(score) == [text |-> NoText, label |-> "passed", score |-> score, feedback |-> <<>>]

\* the trailer "validation warning, score N/100, note: <feedback>"
WarningLabel(score, feedback) ==
  [text |-> NoText, label |-> "warning", score |-> score, feedback |-> feedback]

Entry(role, content) == [role |-> role, content |-> content]

\* what is recorded of the generate-and-validate cycle a turn ran:
\*   calls: invocations of llm.chat; validations: the pass flag of each
\*   validation, in order; shortlist: number of screened funds on entry;
\*   raised: the call sites of the turn at which llm.chat raised
NoCycle ==
  [ran |-> FALSE, calls |-> 0, validations |-> <<>>, shortlist |-> 0, raised |-> {}]

\* llm.chat was called at a site of the turn with the outcome out
Noted(m, called, site, out) ==
  IF called /\ LLMRaises(out) THEN [m EXCEPT !.cycle.raised = @ \cup {site}] ELSE m

GroupChatManager_init ==
  [current_stage |-> STAGE_REQUIREMENT,
   conversation_history |-> <<>>,
   last_validation_result |-> NoResult,
   requirement_agent |-> RequirementAgent_init,
   risk_agent |-> RiskAgent_init,
   fund_expert_agent |-> FundExpertAgent_init,
   validation_history |-> <<>>,
   cycle |-> NoCycle]

\* CriticAgent.generate_improvement_suggestions
generate_improvement_suggestions(result) ==
  IF result.passed THEN <<>> ELSE result.feedback

\* critic_agent.validate(...) and  self.last_validation_result = validation
Validated(m, validation) ==
  [m EXCEPT !.last_validation_result = validation,
            !.validation_history = Append(@, validation),
            !.cycle.validations = Append(@, validation.passed)]

\* the retries of _generate_and_validate_recommendation
MaxRetry == 2

\* the end of _regenerate_with_feedback: the new text is stored and validated
Regenerated(m, response, validation) ==
  [m |-> Validated([m EXCEPT !.fund_expert_agent.recommendation = response], validation),
   response |-> IF ~validation.passed
                THEN <<TextPart(response),
                       WarningLabel(validation.score, validation.feedback)>>
                ELSE <<TextPart(response), PassedLabel(validation.score)>>]

\* mutant: the regeneration is repeated as long as the validation fails
RECURSIVE _regenerate_until_passed(_, _, _, _, _)
_regenerate_until_passed(m, has_llm, feedback, outs, retry_count) ==
  IF ~has_llm THEN [m |-> m, response |-> <<TextPart(Message("noLLM"))>>]
  ELSE IF LLMRaises(Head(outs))
    THEN [m |-> Noted([m EXCEPT !.cycle.calls = @ + 1], TRUE, "regenerate", Head(outs)),
          response |-> <<TextPart(Message("regenerateError"))>>]
  ELSE LET r == Regenerated([m EXCEPT !.cycle.calls = @ + 1], Head(outs),
                            validate(Render(Head(outs)), m.requirement_agent.user_profile,
                                     m.risk_agent.risk_level))
       IN IF ~r.m.last_validation_result.passed /\ Len(outs) > 1
          THEN _regenerate_until_passed(r.m, has_llm, r.m.last_validation_result.feedback,
                                        Tail(outs), retry_count + 1)
          ELSE r

\* GroupChatManager._regenerate_with_feedback; outs: the results of the
\* llm.chat calls still to come
_regenerate_with_feedback(m, has_llm, feedback, outs, retry_count) ==
  IF ~has_llm THEN [m |-> m, response |-> <<TextPart(Message("noLLM"))>>]
  ELSE IF LLMRaises(Head(outs))
    THEN [m |-> Noted([m EXCEPT !.cycle.calls = @ + 1], TRUE, "regenerate", Head(outs)),
          response |-> <<TextPart(Message("regenerateError"))>>]
  ELSE Regenerated([m EXCEPT !.cycle.calls = @ + 1], Head(outs),
                   validate(Render(Head(outs)), m.requirement_agent.user_profile,
                            m.risk_agent.risk_level))

\* the end of _generate_and_validate_recommendation, after the validation
Decided(m, has_llm, recommendation, validation, outs, retry_count) ==
  IF ~validation.passed /\ retry_count < MaxRetry
  THEN _regenerate_with_feedback(m, has_llm, generate_improvement_suggestions(validation),
                                 outs, retry_count + 1)
  ELSE [m |-> m, response |-> <<TextPart(recommendation), PassedLabel(validation.score)>>]

\* the middle of _generate_and_validate_recommendation: the generated text
\* is validated and the result kept
GeneratedThen(m, has_llm, gen, validation, outs, retry_count) ==
  Decided(Validated(Noted([m EXCEPT !.fund_expert_agent = gen.agent,
                                    !.cycle.calls = @ + (IF gen.called THEN 1 ELSE 0)],
                          gen.called, "generate", Head(outs)),
                    validation),
          has_llm, gen.response, validation,
          IF gen.called THEN Tail(outs) ELSE outs, retry_count)

GenerateThen(m, has_llm, gen, outs, retry_count) ==
  GeneratedThen(m, has_llm, gen,
                validate(Render(gen.response), m.requirement_agent.user_profile,
                         m.risk_agent.risk_level),
                outs, retry_count)

\* GroupChatManager._generate_and_validate_recommendation
_generate_and_validate_recommendation(m, has_llm, outs, retry_count) ==
  GenerateThen(m, has_llm, generate_recommendation(m.fund_expert_agent, has_llm, Head(outs)),
               outs, retry_count)

\* mutant: the stage changes and the risk agent is not greeted
RequirementHandledWithoutGreeting(m, has_llm, r, greeting) ==
  IF r.agent.is_complete
  THEN [m |-> [m EXCEPT !.requirement_agent = r.agent, !.current_stage = STAGE_RISK],
        response |-> <<TextPart(r.response)>>]
  ELSE [m |-> [m EXCEPT !.requirement_agent = r.agent],
        response |-> <<TextPart(r.response)>>]

\* mutant: the risk stage is passed over when the intake completes
RequirementHandledSkippingRisk(m, has_llm, r, greeting) ==
  IF r.agent.is_complete
  THEN [m |-> [m EXCEPT !.requirement_agent = r.agent,
                        !.current_stage = STAGE_RECOMMENDATION],
        response |-> <<TextPart(r.response)>>]
  ELSE [m |-> [m EXCEPT !.requirement_agent = r.agent],
        response |-> <<TextPart(r.response)>>]

\* the end of _handle_requirement_stage, after requirement_agent.process
RequirementHandled(m, has_llm, r, greeting) ==
  IF r.agent.is_complete
  THEN [m |-> Noted([m EXCEPT !.requirement_agent = r.agent,
                              !.current_stage = STAGE_RISK,
                              !.risk_agent =
                                 RiskAgent_process(@, has_llm, "greeting", greeting).agent],
                     has_llm, "greeting", greeting),
        response |-> <<TextPart(r.response)>>]
  ELSE [m |-> [m EXCEPT !.requirement_agent = r.agent],
        response |-> <<TextPart(r.response)>>]

\* GroupChatManager._handle_requirement_stage; outs = <<intake, greeting>>
_handle_requirement_stage(m, has_llm, user_input, outs) ==
  RequirementHandled(Noted(m, has_llm, "intake", outs[1]), has_llm,
                     RequirementAgent_process(m.requirement_agent, has_llm, user_input, outs[1]),
                     outs[2])

\* response + "\n\n" + the reply of the cycle
Prefixed(response, c) == [m |-> c.m, response |-> <<TextPart(response)>> \o c.response]

\* the cycle starts: the stage changes and the shortlist is set
Screening(m, expert) ==
  [m EXCEPT !.current_stage = STAGE_RECOMMENDATION,
            !.fund_expert_agent = expert,
            !.cycle = [@ EXCEPT !.ran = TRUE, !.shortlist = Len(expert.screened_funds)]]

\* the end of _handle_risk_stage, after risk_agent.process
RiskHandled(m, has_llm, r, outs, ranking) ==
  IF r.agent.is_complete
  THEN Prefixed(r.response,
         _generate_and_validate_recommendation(
           Screening(m, set_user_info(m.fund_expert_agent, m.requirement_agent.user_profile,
                                      r.agent.risk_level, ranking)),
           has_llm, outs, 0))
  ELSE [m |-> m, response |-> <<TextPart(r.response)>>]

RiskProcessed(m, has_llm, r, outs, ranking) ==
  RiskHandled([m EXCEPT !.risk_agent = r.agent], has_llm, r, outs, ranking)

\* GroupChatManager._handle_risk_stage; outs = <<risk reply>> \o the results
\* of the generator calls of the cycle
_handle_risk_stage(m, has_llm, user_input, outs, ranking) ==
  RiskProcessed(Noted(m, has_llm, "risk", Head(outs)), has_llm,
                RiskAgent_process(m.risk_agent, has_llm, user_input, Head(outs)),
                Tail(outs), ranking)

\* mutant: the stored recommendation is validated again on every question
_handle_recommendation_stage_revalidating(m, has_llm, user_input, outs) ==
  [m |-> Validated(m, validate(Render(m.fund_expert_agent.recommendation),
                               m.requirement_agent.user_profile, m.risk_agent.risk_level)),
   response |-> <<TextPart(IF LLMRaises(Head(outs)) THEN Message("chatError")
                           ELSE Head(outs))>>]

\* mutant: the generator is called without the test of self.llm
_handle_recommendation_stage_unchecked(m, has_llm, user_input, outs) ==
  IF LLMRaises(Head(outs))
    THEN [m |-> m, response |-> <<TextPart(Message("chatError"))>>]
  ELSE [m |-> m, response |-> <<TextPart(Head(outs))>>]

\* mutant: an answered question closes the conversation
_handle_recommendation_stage_closing(m, has_llm, user_input, outs) ==
  IF ~has_llm THEN [m |-> m, response |-> <<TextPart(Message("noLLM"))>>]
  ELSE IF LLMRaises(Head(outs))
    THEN [m |-> Noted(m, TRUE, "answer", Head(outs)),
          response |-> <<TextPart(Message("chatError"))>>]
  ELSE [m |-> [m EXCEPT !.current_stage = STAGE_COMPLETE],
        response |-> <<TextPart(Head(outs))>>]

\* GroupChatManager._handle_recommendation_stage
_handle_recommendation_stage(m, has_llm, user_input, outs) ==
  IF ~has_llm THEN [m |-> m, response |-> <<TextPart(Message("noLLM"))>>]
  ELSE IF LLMRaises(Head(outs))
    THEN [m |-> Noted(m, TRUE, "answer", Head(outs)),
          response |-> <<TextPart(Message("chatError"))>>]
  ELSE [m |-> m, response |-> <<TextPart(Head(outs))>>]

\* GroupChatManager.reset
reset(m) ==
  [m EXCEPT !.current_stage = STAGE_REQUIREMENT,
            !.conversation_history = <<>>,
            !.requirement_agent = RequirementAgent_init,
            !.risk_agent = RiskAgent_init,
            !.fund_expert_agent = FundExpertAgent_init]

\* the utterance contains a restart keyword
WantsRestart(user_input) == user_input \in {"chongxin", "zailaiyici"}

\* mutant: a restart changes the stage and leaves the sub-agents as they are
_handle_complete_stage_stage_only(m, user_input) ==
  IF WantsRestart(user_input)
  THEN [m |-> [m EXCEPT !.current_stage = STAGE_REQUIREMENT, !.conversation_history = <<>>],
        response |-> <<TextPart(Message("restartGreeting"))>>]
  ELSE [m |-> m, response |-> <<TextPart(Message("restartHint"))>>]

\* GroupChatManager._handle_complete_stage
_handle_complete_stage(m, user_input) ==
  IF WantsRestart(user_input)
  THEN [m |-> reset(m), response |-> <<TextPart(Message("restartGreeting"))>>]
  ELSE [m |-> m, response |-> <<TextPart(Message("restartHint"))>>]

UserContent(user_input) == <<TextPart(Chat({user_input}, <<>>))>>

\* the stage handler of process()
Dispatch(m, has_llm, user_input, outs, ranking) ==
  CASE m.current_stage = STAGE_REQUIREMENT ->
         _handle_requirement_stage(m, has_llm, user_input, outs)
    [] m.current_stage = STAGE_RISK ->
         _handle_risk_stage(m, has_llm, user_input, outs, ranking)
    [] m.current_stage = STAGE_RECOMMENDATION ->
         _handle_recommendation_stage(m, has_llm, user_input, outs)
    [] m.current_stage = STAGE_COMPLETE ->
         _handle_complete_stage(m, user_input)
    [] OTHER -> [m |-> m, response |-> <<TextPart(Message("unknownStage"))>>]

\* the end of process(): the reply is appended to the history and returned
Replied(h) ==
  [m |-> [h.m EXCEPT !.conversation_history = Append(@, Entry("assistant", h.response))],
   response |-> h.response]

\* GroupChatManager.process
process(m, has_llm, user_input, outs, ranking) ==
  Replied(Dispatch([m EXCEPT !.conversation_history =
                                Append(@, Entry("user", UserContent(user_input))),
                             !.cycle = NoCycle],
                   has_llm, user_input, outs, ranking))

(***************************************************************************)
(* CacheDB (src/src/cache/db.py).  A table is the set of its rows when a   *)
(* key makes them unique, and the sequence of its rows in the order of     *)
(* insertion otherwise.  Times are counted in hours, dates in days.        *)
(***************************************************************************)
\* Python's None, and SQL's NULL
NULL == "NULL"

\* a dictionary or row that is None
None == [none |-> TRUE]

\* dict.get(key): None when the key is absent
DictGet(data, key) == IF key \in DOMAIN data THEN data[key] ELSE NULL

\* the database after CacheDB._init_db on a new file
EmptyDB ==
  [fund_basic |-> {}, fund_nav |-> {}, fund_holdings |-> <<>>, fund_rating |-> <<>>,
   update_log |-> <<>>]

\* the row that save_fund_basic writes
BasicRow(fund_code, data, t) ==
  [fund_code |-> fund_code,
   fund_name |-> DictGet(data, "fund_name"),
   fund_type |-> DictGet(data, "fund_type"),
   company |-> DictGet(data, "company"),
   manager |-> DictGet(data, "manager"),
   established_date |-> DictGet(data, "established_date"),
   updated_at |-> t]

\* CacheDB.save_fund_basic at time t: INSERT OR REPLACE on the primary key
save_fund_basic(d, fund_code, data, t) ==
  [d EXCEPT !.fund_basic =
     {r \in @ : r.fund_code # fund_code} \cup {BasicRow(fund_code, data, t)}]

\* CacheDB.get_fund_basic: dict(row) or None
get_fund_basic(d, fund_code) ==
  IF \E r \in d.fund_basic : r.fund_code = fund_code
  THEN CHOOSE r \in d.fund_basic : r.fund_code = fund_code
  ELSE None

\* the row that save_fund_nav writes
NavRow(fund_code, nav_date, data) ==
  [fund_code |-> fund_code, nav_date |-> nav_date, unit_nav |-> DictGet(data, "unit_nav"),
   accumulated_nav |-> DictGet(data, "accumulated_nav"),
   daily_growth |-> DictGet(data, "daily_growth")]

\* CacheDB.save_fund_nav: INSERT OR REPLACE on UNIQUE(fund_code, nav_date)
save_fund_nav(d, fund_code, nav_date, data) ==
  [d EXCEPT !.fund_nav =
     {r \in @ : ~(r.fund_code = fund_code /\ r.nav_date = nav_date)}
       \cup {NavRow(fund_code, nav_date, data)}]

\* the rows of a set in the order ORDER BY nav_date DESC gives them
RECURSIVE ByDateDesc(_)
ByDateDesc(rows) ==
  IF rows = {} THEN <<>>
  ELSE LET latest == CHOOSE r \in rows : \A q \in rows : q.nav_date <= r.nav_date
       IN <<latest>> \o ByDateDesc(rows \ {latest})

\* CacheDB.get_fund_nav(fund_code, start_date=start_date)
get_fund_nav_since(d, fund_code, start_date) ==
  ByDateDesc({r \in d.fund_nav : r.fund_code = fund_code /\ r.nav_date >= start_date})

\* CacheDB.get_latest_nav
get_latest_nav(d, fund_code) ==
  LET rows == ByDateDesc({r \in d.fund_nav : r.fund_code = fund_code})
  IN IF rows = <<>> THEN None ELSE rows[1]

\* the row that save_fund_holdings writes for one holding
HoldingRow(fund_code, report_date, holding) ==
  [fund_code |-> fund_code, report_date |-> report_date,
   stock_code |-> DictGet(holding, "stock_code"),
   holding_ratio |-> DictGet(holding, "holding_ratio")]

RECURSIVE HoldingRows(_, _, _)
HoldingRows(fund_code, report_date, holdings) ==
  IF holdings = <<>> THEN <<>>
  ELSE <<HoldingRow(fund_code, report_date, Head(holdings))>>
         \o HoldingRows(fund_code, report_date, Tail(holdings))

\* CacheDB.save_fund_holdings: a plain INSERT per holding
save_fund_holdings(d, fund_code, report_date, holdings) ==
  [d EXCEPT !.fund_holdings = @ \o HoldingRows(fund_code, report_date, holdings)]

\* CacheDB.get_latest_holdings: the rows of the fund (LIMIT 10 is not reached
\* by the tables of this model)
get_latest_holdings(d, fund_code) ==
  SelectSeq(d.fund_holdings, LAMBDA r : r.fund_code = fund_code)

\* the row that save_fund_rating writes; y1, y2, y3 are the keys "1y", "2y", "3y"
RatingRow(fund_code, rating_date, agency, ratings) ==
  [fund_code |-> fund_code, rating_date |-> rating_date, rating_agency |-> agency,
   rating_1y |-> DictGet(ratings, "y1"), rating_2y |-> DictGet(ratings, "y2"),
   rating_3y |-> DictGet(ratings, "y3")]

\* CacheDB.save_fund_rating: a plain INSERT
save_fund_rating(d, fund_code, rating_date, agency, ratings) ==
  [d EXCEPT !.fund_rating = Append(@, RatingRow(fund_code, rating_date, agency, ratings))]

\* CacheDB.get_latest_rating: the first row in ORDER BY rating_date DESC
get_latest_rating(d, fund_code) ==
  LET rows == SelectSeq(d.fund_rating, LAMBDA r : r.fund_code = fund_code)
  IN IF rows = <<>> THEN None
     ELSE rows[CHOOSE i \in DOMAIN rows : \A j \in DOMAIN rows :
                  rows[j].rating_date <= rows[i].rating_date]

\* no time: get_last_update_time returns None
Never == -1

\* CacheDB.log_update at time t
log_update(d, data_type, status, t) ==
  [d EXCEPT !.update_log =
     Append(@, [data_type |-> data_type, updated_at |-> t, status |-> status])]

\* CacheDB.get_last_update_time: the latest successful entry, or None
get_last_update_time(d, data_type) ==
  LET ok == SelectSeq(d.update_log,
                      LAMBDA e : e.data_type = data_type /\ e.status = "success")
  IN IF ok = <<>> THEN Never
     ELSE ok[CHOOSE i \in DOMAIN ok : \A j \in DOMAIN ok :
               ok[j].updated_at <= ok[i].updated_at].updated_at

(***************************************************************************)
(* FundDataService (src/src/services/fund_data.py).  A provider call is    *)
(* given by its outcome [raises, value].  An operation yields the database *)
(* it leaves, the value it returns, whether it raised to its caller, the   *)
(* providers it called, in order, and whether the value it returns was     *)
(* obtained from a provider in this call.                                  *)
(***************************************************************************)
\* config.data_update_interval, in hours
update_interval == 24

\* the age in days up to which a cached valuation is served
StaleDays == 1

HoursPerDay == 24

\* datetime.now().strftime("%Y-%m-%d"), as a day number
Today(t) == t \div HoursPerDay

Fails == [raises |-> TRUE, value |-> None]

Gives(value) == [raises |-> FALSE, value |-> value]

Done(d, value, providers, fresh) ==
  [d |-> d, value |-> value, raised |-> FALSE, providers |-> providers, fresh |-> fresh]

\* the operation raised to its caller
Thrown(d, providers) ==
  [d |-> d, value |-> None, raised |-> TRUE, providers |-> providers, fresh |-> FALSE]

\* for fund in fund_list: cache_db.save_fund_basic(fund["fund_code"], fund)
RECURSIVE SaveBasics(_, _, _)
SaveBasics(d, funds, t) ==
  IF funds = <<>> THEN d
  ELSE SaveBasics(save_fund_basic(d, Head(funds).fund_code, Head(funds), t), Tail(funds), t)

\* for record in history: cache_db.save_fund_nav(fund_code, record.get("nav_date", ""), record)
RECURSIVE SaveNavs(_, _, _)
SaveNavs(d, fund_code, records) ==
  IF records = <<>> THEN d
  ELSE SaveNavs(save_fund_nav(d, fund_code, Head(records).nav_date, Head(records)),
                fund_code, Tail(records))

\* for nav in nav_list: cache_db.save_fund_nav(nav["fund_code"], nav.get("nav_date", ""), nav)
RECURSIVE SaveDailyNavs(_, _)
SaveDailyNavs(d, navs) ==
  IF navs = <<>> THEN d
  ELSE SaveDailyNavs(save_fund_nav(d, Head(navs).fund_code, Head(navs).nav_date, Head(navs)),
                     Tail(navs))

\* for r in ratings: cache_db.save_fund_rating(r["fund_code"], today, r["rating_agency"], ...)
RECURSIVE SaveRatings(_, _, _)
SaveRatings(d, ratings, today) ==
  IF ratings = <<>> THEN d
  ELSE SaveRatings(save_fund_rating(d, Head(ratings).fund_code, today,
                                    Head(ratings).rating_agency,
                                    [y1 |-> Head(ratings).rating_1y,
                                     y2 |-> Head(ratings).rating_2y,
                                     y3 |-> Head(ratings).rating_3y]),
                   Tail(ratings), today)

\* the cached list is younger than the update interval
ListIsFresh(d, t) ==
  /\ get_last_update_time(d, "fund_list") # Never
  /\ t - get_last_update_time(d, "fund_list") < update_interval

\* FundDataService.get_fund_list.  On a fresh cache the code calls fetchall()
\* on the sqlite3.Connection, which has no such method: AttributeError,
\* outside of any try
get_fund_list(d, t, use_cache, ak) ==
  IF use_cache /\ ListIsFresh(d, t) THEN Thrown(d, <<>>)
  ELSE IF ak.raises THEN Done(d, <<>>, <<"akshare">>, FALSE)
  ELSE Done(log_update(SaveBasics(d, ak.value, t), "fund_list", "success", t),
            ak.value, <<"akshare">>, ak.value # <<>>)

\* the fallback of get_daily_nav: get_fund_list, then the batch call
DailyNavFallback(list, sina) ==
  IF list.raised THEN Done(list.d, <<>>, <<"akshare">> \o list.providers, FALSE)
  ELSE IF sina.raises
    THEN Done(list.d, <<>>, <<"akshare">> \o list.providers \o <<"sina">>, FALSE)
  ELSE Done(list.d, sina.value, <<"akshare">> \o list.providers \o <<"sina">>,
            sina.value # <<>>)

\* FundDataService.get_daily_nav
get_daily_nav(d, t, ak, ak_list, sina) ==
  IF ~ak.raises
  THEN Done(log_update(SaveDailyNavs(d, ak.value), "daily_nav", "success", t),
            ak.value, <<"akshare">>, ak.value # <<>>)
  ELSE DailyNavFallback(get_fund_list(d, t, TRUE, ak_list), sina)

\* the cached latest valuation is served
NavIsFresh(latest, t) == latest # None /\ Today(t) - latest.nav_date <= StaleDays

\* mutant: a cached valuation is served whatever its date
get_fund_nav_any_age(d, t, fund_code, use_cache, ak, sina) ==
  IF use_cache /\ get_latest_nav(d, fund_code) # None
    THEN Done(d, get_latest_nav(d, fund_code), <<>>, FALSE)
  ELSE IF ~ak.raises /\ ak.value # <<>>
    THEN Done(SaveNavs(d, fund_code, ak.value), Head(ak.value), <<"akshare">>, TRUE)
  ELSE IF ~sina.raises /\ sina.value # None
    THEN Done(save_fund_nav(d, fund_code, sina.value.nav_date, sina.value), sina.value,
              <<"akshare", "sina">>, TRUE)
  ELSE Done(d, get_latest_nav(d, fund_code), <<"akshare", "sina">>, FALSE)

\* FundDataService.get_fund_nav
get_fund_nav(d, t, fund_code, use_cache, ak, sina) ==
  IF use_cache /\ NavIsFresh(get_latest_nav(d, fund_code), t)
    THEN Done(d, get_latest_nav(d, fund_code), <<>>, FALSE)
  ELSE IF ~ak.raises /\ ak.value # <<>>
    THEN Done(SaveNavs(d, fund_code, ak.value), Head(ak.value), <<"akshare">>, TRUE)
  ELSE IF ~sina.raises /\ sina.value # None
    THEN Done(save_fund_nav(d, fund_code, sina.value.nav_date, sina.value), sina.value,
              <<"akshare", "sina">>, TRUE)
  ELSE Done(d, get_latest_nav(d, fund_code), <<"akshare", "sina">>, FALSE)

\* FundDataService.get_fund_history
get_fund_history(d, t, fund_code, days, ak) ==
  IF get_fund_nav_since(d, fund_code, Today(t) - days) # <<>>
    THEN Done(d, get_fund_nav_since(d, fund_code, Today(t) - days), <<>>, FALSE)
  ELSE IF ak.raises THEN Done(d, <<>>, <<"akshare">>, FALSE)
  ELSE Done(SaveNavs(d, fund_code, ak.value), ak.value, <<"akshare">>, ak.value # <<>>)

\* FundDataService.get_fund_basic_info
get_fund_basic_info(d, t, fund_code, ak) ==
  IF get_fund_basic(d, fund_code) # None
    THEN Done(d, get_fund_basic(d, fund_code), <<>>, FALSE)
  ELSE IF ~ak.raises /\ ak.value # None
    THEN Done(save_fund_basic(d, fund_code, ak.value, t), ak.value, <<"akshare">>, TRUE)
  ELSE Done(d, None, <<"akshare">>, FALSE)

\* FundDataService.get_fund_holdings; tushare_token: config.tushare_token is set
get_fund_holdings(d, t, tushare_token, fund_code, ak, tushare) ==
  IF get_latest_holdings(d, fund_code) # <<>>
    THEN Done(d, get_latest_holdings(d, fund_code), <<>>, FALSE)
  ELSE IF ~ak.raises /\ ak.value # <<>>
    THEN Done(save_fund_holdings(d, fund_code, Today(t), ak.value), ak.value,
              <<"akshare">>, TRUE)
  ELSE IF ~tushare_token THEN Done(d, <<>>, <<"akshare">>, FALSE)
  ELSE IF ~tushare.raises /\ tushare.value # <<>>
    THEN Done(d, tushare.value, <<"akshare", "tushare">>, TRUE)
  ELSE Done(d, <<>>, <<"akshare", "tushare">>, FALSE)

\* FundDataService.get_fund_ranking; jq_login: config.jq_username and
\* config.jq_password are set
get_fund_ranking(d, jq_login, ak, jq) ==
  IF ~ak.raises THEN Done(d, ak.value, <<"akshare">>, ak.value # <<>>)
  ELSE IF ~jq_login THEN Done(d, <<>>, <<"akshare">>, FALSE)
  ELSE IF ~jq.raises THEN Done(d, jq.value, <<"akshare", "jq">>, jq.value # <<>>)
  ELSE Done(d, <<>>, <<"akshare", "jq">>, FALSE)

\* the first r of ratings with r["fund_code"] == fund_code, or None
RatingOf(ratings, fund_code) ==
  LET own == SelectSeq(ratings, LAMBDA r : r.fund_code = fund_code)
  IN IF own = <<>> THEN None ELSE Head(own)

\* FundDataService.get_fund_rating
get_fund_rating(d, t, fund_code, ak) ==
  IF get_latest_rating(d, fund_code) # None
    THEN Done(d, get_latest_rating(d, fund_code), <<>>, FALSE)
  ELSE IF ak.raises THEN Done(d, None, <<"akshare">>, FALSE)
  ELSE Done(SaveRatings(d, ak.value, Today(t)), RatingOf(ak.value, fund_code),
            <<"akshare">>, RatingOf(ak.value, fund_code) # None)

(***************************************************************************)
(* The conversation as a state machine                                     *)
(***************************************************************************)
VARIABLES
  llm,                     \* GroupChatManager.llm is not None
  current_stage,
  conversation_history,
  last_validation_result,
  requirement_agent,
  risk_agent,
  fund_expert_agent,
  validation_history,      \* critic_agent.validation_history
  cycle,                   \* the cycle run by the last process() call
  reply,                   \* what the last process() call returned
  last_call,               \* the last call made on the manager
  in_flight,               \* the utterances of the process() calls waiting in llm.chat
  db,                      \* the tables of cache_db
  now,                     \* the clock, in hours
  cfg,                     \* which credentials the configuration holds
  call,                    \* the last call made on the cache or the resolver
  loop                     \* the event loop of asyncio.run(manager.process(...))

manager_vars ==
  <<llm, current_stage, conversation_history, last_validation_result,
    requirement_agent, risk_agent, fund_expert_agent, validation_history,
    cycle, reply, last_call>>

cache_vars == <<db, now, cfg, call, loop>>

vars == <<manager_vars, critic_vars, in_flight, cache_vars>>

NoCall ==
  [op |-> "none", fund_code |-> "", use_cache |-> FALSE, value |-> None,
   raised |-> FALSE, providers |-> <<>>, fresh |-> FALSE]

\* no asyncio.run is in progress.  running: asyncio.run has not returned;
\* task: the codes the task of _preload_size_data has yet to go through;
\* fetched: the instruments the task went through since asyncio.run began
NoLoop == [running |-> FALSE, task |-> <<>>, fetched |-> 0]

\* the cache is new and no call was made on it
CacheIdle ==
  /\ db = EmptyDB
  /\ now = 0
  /\ cfg = [tushare_token |-> FALSE, jq_login |-> FALSE]
  /\ call = NoCall
  /\ loop = NoLoop

\* entries the conversation history may hold between two resets
MaxHistory == 6

\* validations the critic may have made
MaxValidations == 2

\* the manager object, as a value
Manager ==
  [current_stage |-> current_stage,
   conversation_history |-> conversation_history,
   last_validation_result |-> last_validation_result,
   requirement_agent |-> requirement_agent,
   risk_agent |-> risk_agent,
   fund_expert_agent |-> fund_expert_agent,
   validation_history |-> validation_history,
   cycle |-> cycle]

\* the manager object becomes m
Becomes(m) ==
  /\ current_stage' = m.current_stage
  /\ conversation_history' = m.conversation_history
  /\ last_validation_result' = m.last_validation_result
  /\ requirement_agent' = m.requirement_agent
  /\ risk_agent' = m.risk_agent
  /\ fund_expert_agent' = m.fund_expert_agent
  /\ validation_history' = m.validation_history
  /\ cycle' = m.cycle

\* replies of the generator in the requirement stage
IntakeOutcomes ==
  {Chat({}, <<>>),
   Chat({"REQUIREMENT_DONE"}, <<>>),
   Chat({"REQUIREMENT_DONE", "wan", "changqi", "gaoshouyi", "maiguo"}, <<10>>),
   Raised}

\* replies of the generator to the greeting turn of the risk agent
GreetingOutcomes == {Chat({}, <<>>), Chat({"RISK_DONE", "growth"}, <<>>), Raised}

\* replies of the generator in the risk stage
RiskOutcomes ==
  {Chat({}, <<>>),
   Chat({"RISK_DONE"}, <<>>),
   Chat({"RISK_DONE", "conservative"}, <<>>),
   Chat({"RISK_DONE", "aggressive", "balanced"}, <<>>),
   Raised}

\* results of the first and second generator call of a cycle
GenOutcomes == {ScenarioA, ScenarioB, TestCase2, Raised}

\* results of any later generator call
LaterGenOutcomes == {TestCase2}

\* replies of the generator to a follow-up question
AnswerOutcomes == {Chat({}, <<>>), Raised}

\* what get_fund_ranking returns in _screen_funds
Rankings ==
  {[raises |-> TRUE, funds |-> <<>>],
   [raises |-> FALSE, funds |-> <<Ranked("F3", -5), Ranked("F4", 8)>>],
   [raises |-> FALSE,
    funds |-> <<Ranked("F1", 12), Ranked("F2", 30), Ranked("F3", -5), Ranked("F4", 8)>>]}

NoRanking == [raises |-> TRUE, funds |-> <<>>]

\* utterances: without and with a restart keyword
Utterances == {"nihao", "chongxin", "zailaiyici"}

Init ==
  /\ llm \in BOOLEAN
  /\ current_stage = GroupChatManager_init.current_stage
  /\ conversation_history = GroupChatManager_init.conversation_history
  /\ last_validation_result = GroupChatManager_init.last_validation_result
  /\ requirement_agent = GroupChatManager_init.requirement_agent
  /\ risk_agent = GroupChatManager_init.risk_agent
  /\ fund_expert_agent = GroupChatManager_init.fund_expert_agent
  /\ validation_history = GroupChatManager_init.validation_history
  /\ cycle = NoCycle
  /\ reply = <<>>
  /\ last_call = "init"
  /\ in_flight = <<>>
  /\ CacheIdle
  /\ c_text = NoText /\ c_level = "" /\ c_result = NoResult

\* a process() call returns: the manager is updated and the reply kept
Returned(r) ==
  /\ Becomes(r.m)
  /\ reply' = r.response
  /\ last_call' = "process"
  /\ UNCHANGED <<llm, critic_vars>>

\* one process() call runs from its start to its return
Returns(r) == Returned(r) /\ UNCHANGED <<in_flight, cache_vars>>

CanProcess == Len(conversation_history) + 2 <= MaxHistory

\* process() in the requirement stage
ProcessRequirement ==
  /\ current_stage = STAGE_REQUIREMENT /\ CanProcess
  /\ \E o1 \in (IF llm THEN IntakeOutcomes ELSE {Raised}),
        o2 \in (IF llm THEN GreetingOutcomes ELSE {Raised}) :
       Returns(process(Manager, llm, "nihao", <<o1, o2>>, NoRanking))

\* process() in the risk stage, with the cycle it runs on completion
ProcessRisk ==
  /\ current_stage = STAGE_RISK /\ CanProcess
  /\ Len(validation_history) + 2 <= MaxValidations
  /\ \E o \in (IF llm THEN RiskOutcomes ELSE {Raised}),
        g1 \in GenOutcomes, g2 \in GenOutcomes,
        g3 \in LaterGenOutcomes, g4 \in LaterGenOutcomes,
        ranking \in Rankings :
       Returns(process(Manager, llm, "nihao", <<o, g1, g2, g3, g4>>, ranking))

\* process() in the recommendation stage: a follow-up question
ProcessRecommendation ==
  /\ current_stage = STAGE_RECOMMENDATION /\ CanProcess
  /\ \E o \in (IF llm THEN AnswerOutcomes ELSE {Raised}) :
       Returns(process(Manager, llm, "nihao", <<o>>, NoRanking))

\* process() in the complete stage
ProcessComplete ==
  /\ current_stage = STAGE_COMPLETE /\ CanProcess
  /\ \E u \in Utterances : Returns(process(Manager, llm, u, <<>>, NoRanking))

\* the front end calls manager.reset()
Reset ==
  /\ last_call # "reset"
  /\ Becomes(reset(Manager))
  /\ last_call' = "reset"
  /\ UNCHANGED <<llm, reply, critic_vars, in_flight, cache_vars>>

\* the surrounding system closes the conversation after the recommendation
SignalClosure ==
  /\ current_stage = STAGE_RECOMMENDATION
  /\ current_stage' = STAGE_COMPLETE
  /\ last_call' = "closure"
  /\ UNCHANGED <<llm, conversation_history, last_validation_result, requirement_agent,
                 risk_agent, fund_expert_agent, validation_history, cycle, reply,
                 critic_vars, in_flight, cache_vars>>

Next ==
  \/ ProcessRequirement
  \/ ProcessRisk
  \/ ProcessRecommendation
  \/ ProcessComplete
  \/ Reset
  \/ SignalClosure

Spec == Init /\ [][Next]_vars

(***************************************************************************)
(* The calls the program itself makes on the manager: process() and        *)
(* reset().  Nothing assigns current_stage from outside.                   *)
(***************************************************************************)
CallsNext ==
  \/ ProcessRequirement
  \/ ProcessRisk
  \/ ProcessRecommendation
  \/ Reset

SpecCalls == Init /\ [][CallsNext]_vars

(***************************************************************************)
(* A manager constructed without a generator.  No stage is left by         *)
(* process() then; the later stages are entered as the tests enter them,   *)
(* by assigning current_stage.                                             *)
(***************************************************************************)
InitNoLLM == Init /\ ~llm

\* manager.current_stage = "risk" (and the like), assigned from outside
StageAssigned ==
  /\ \E s \in {STAGE_RISK, STAGE_RECOMMENDATION, STAGE_COMPLETE} :
       /\ current_stage # s
       /\ current_stage' = s
  /\ last_call' = "assigned"
  /\ UNCHANGED <<llm, conversation_history, last_validation_result, requirement_agent,
                 risk_agent, fund_expert_agent, validation_history, cycle, reply,
                 critic_vars, in_flight, cache_vars>>

NextNoLLM == Next \/ StageAssigned

SpecNoLLM == InitNoLLM /\ [][NextNoLLM]_vars

(***************************************************************************)
(* process() called again while a call is waiting for the generator.  The  *)
(* object has no lock and no flag for a call in progress, so a call        *)
(* started from a second thread runs while the first one is blocked in     *)
(* llm.chat.  The calls of the requirement stage are split at that point.  *)
(***************************************************************************)
\* calls that may wait at one time
MaxInFlight == 2

\* the sequence s without its element i
Without(s, i) == SubSeq(s, 1, i - 1) \o SubSeq(s, i + 1, Len(s))

\* process() in the requirement stage up to the call of llm.chat: the
\* utterance is appended to the history of the manager and of the agent
BeginRequirement ==
  /\ llm /\ current_stage = STAGE_REQUIREMENT
  /\ Len(in_flight) < MaxInFlight
  /\ Len(conversation_history) + Len(in_flight) + 2 <= MaxHistory
  /\ conversation_history' =
       Append(conversation_history, Entry("user", UserContent("nihao")))
  /\ in_flight' = Append(in_flight, "nihao")
  /\ requirement_agent' =
       [requirement_agent EXCEPT !.conversation_history = Append(@, "user")]
  /\ cycle' = NoCycle
  /\ UNCHANGED <<llm, current_stage, last_validation_result, risk_agent,
                 fund_expert_agent, validation_history, reply, last_call, critic_vars,
                 cache_vars>>

\* llm.chat returns in one of the waiting calls, which runs to its return
ResumeRequirement ==
  /\ Len(conversation_history) < MaxHistory
  /\ \E i \in DOMAIN in_flight, o1 \in IntakeOutcomes, o2 \in GreetingOutcomes :
       /\ Returned(Replied(RequirementHandled(
                              Noted(Manager, llm, "intake", o1), llm,
                              RequirementAgent_resumed(requirement_agent, o1), o2)))
       /\ in_flight' = Without(in_flight, i)
       /\ UNCHANGED cache_vars

NextReentrant ==
  \/ BeginRequirement
  \/ ResumeRequirement
  \/ ProcessRequirement
  \/ ProcessRisk

SpecReentrant == Init /\ [][NextReentrant]_vars

(***************************************************************************)
(* The cache and the resolver as a state machine: the calls that the       *)
(* agents, the loader scripts and the tests make on cache_db and on        *)
(* fund_data_service, with the clock advancing between them.               *)
(***************************************************************************)
\* the days the clock runs in each of the specifications below
BasicDays == 8

NavDays == 3

BulkDays == 2

HoldingDays == 1

\* rows a table without a unique key may hold
MaxRows == 2

CacheInit ==
  /\ db = EmptyDB
  /\ now = 0
  /\ cfg \in [tushare_token : BOOLEAN, jq_login : BOOLEAN]
  /\ call = NoCall
  /\ loop = NoLoop
  /\ llm = FALSE
  /\ current_stage = GroupChatManager_init.current_stage
  /\ conversation_history = GroupChatManager_init.conversation_history
  /\ last_validation_result = GroupChatManager_init.last_validation_result
  /\ requirement_agent = GroupChatManager_init.requirement_agent
  /\ risk_agent = GroupChatManager_init.risk_agent
  /\ fund_expert_agent = GroupChatManager_init.fund_expert_agent
  /\ validation_history = GroupChatManager_init.validation_history
  /\ cycle = NoCycle
  /\ reply = <<>>
  /\ last_call = "init"
  /\ in_flight = <<>>
  /\ c_text = NoText /\ c_level = "" /\ c_result = NoResult

Codes == {"F1"}

\* what the providers answer
FundRecord(code) == [fund_code |-> code, fund_name |-> "A", fund_type |-> "T"]

SizeRecord == [net_asset_size |-> "10yi", share_size |-> "9yi"]

\* the dictionary that _preload_size_data and the loader scripts save
SizePayload(code, size_info) ==
  [fund_code |-> code, net_asset_size |-> size_info.net_asset_size,
   share_size |-> size_info.share_size]

NavRecord(code, day, nav) == [fund_code |-> code, nav_date |-> day, unit_nav |-> nav]

FundListOutcomes == {Fails, Gives(<<>>), Gives(<<FundRecord("F1")>>)}

DailyNavOutcomes(t) == {Fails, Gives(<<>>), Gives(<<NavRecord("F1", Today(t), "1")>>)}

BatchNavOutcomes(t) == {Fails, Gives(<<>>), Gives(<<NavRecord("F1", Today(t), "2")>>)}

\* the histories of two days that the provider's table can list, in either
\* order of its rows
TwoDayHistories(code, t) ==
  IF Today(t) = 0 THEN {}
  ELSE {<<NavRecord(code, Today(t) - 1, "2"), NavRecord(code, Today(t), "1")>>,
        <<NavRecord(code, Today(t), "1"), NavRecord(code, Today(t) - 1, "2")>>}

HistoryOutcomes(code, t) ==
  {Fails, Gives(<<>>), Gives(<<NavRecord(code, Today(t), "1")>>)}
    \cup {Gives(h) : h \in TwoDayHistories(code, t)}

SinaNavOutcomes(code, t) == {Fails, Gives(None), Gives(NavRecord(code, Today(t), "2"))}

BasicInfoOutcomes(code) == {Fails, Gives(None), Gives(FundRecord(code))}

\* get_fund_size returns {} when it fails
SizeOutcomes == {Fails, Gives(None), Gives(SizeRecord)}

Holding(stock) == [stock_code |-> stock, holding_ratio |-> "5"]

HoldingsOutcomes == {Fails, Gives(<<>>), Gives(<<Holding("S1")>>)}

RankingOutcomes == {Fails, Gives(<<>>), Gives(<<Ranked("F1", 12)>>)}

Rating(code, stars) ==
  [fund_code |-> code, rating_agency |-> "M", rating_1y |-> stars, rating_2y |-> stars,
   rating_3y |-> stars]

RatingOutcomes == {Fails, Gives(<<>>), Gives(<<Rating("F1", "3")>>)}

\* a call on the cache or the resolver ends
Called(op, fund_code, use_cache, out) ==
  /\ db' = out.d
  /\ call' = [op |-> op, fund_code |-> fund_code, use_cache |-> use_cache,
              value |-> out.value, raised |-> out.raised, providers |-> out.providers,
              fresh |-> out.fresh]
  /\ UNCHANGED <<now, cfg, loop, manager_vars, critic_vars, in_flight>>

\* a day passes, up to the given day
Tick(days) ==
  /\ now + HoursPerDay <= days * HoursPerDay
  /\ now' = now + HoursPerDay
  /\ UNCHANGED <<db, cfg, call, loop, manager_vars, critic_vars, in_flight>>

\* cache_db.save_fund_basic(code, data), as the loader scripts call it
SaveFundBasic ==
  \E code \in Codes : \E data \in {FundRecord(code), SizePayload(code, SizeRecord)} :
    Called("save_fund_basic", code, FALSE,
           Done(save_fund_basic(db, code, data, now), data, <<>>, FALSE))

\* cache_db.save_fund_nav(code, date, data)
SaveFundNav ==
  /\ Cardinality(db.fund_nav) < MaxRows
  /\ \E code \in Codes, nav \in {"1", "2"} :
       Called("save_fund_nav", code, FALSE,
              Done(save_fund_nav(db, code, Today(now), NavRecord(code, Today(now), nav)),
                   NavRecord(code, Today(now), nav), <<>>, FALSE))

\* cache_db.save_fund_holdings(code, date, holdings)
SaveFundHoldings ==
  /\ Len(db.fund_holdings) < MaxRows
  /\ \E code \in Codes :
       Called("save_fund_holdings", code, FALSE,
              Done(save_fund_holdings(db, code, Today(now), <<Holding("S1")>>),
                   <<Holding("S1")>>, <<>>, FALSE))

\* cache_db.save_fund_rating(code, date, agency, ratings)
SaveFundRating ==
  /\ Len(db.fund_rating) < MaxRows
  /\ \E code \in Codes, stars \in {"3", "4"} :
       Called("save_fund_rating", code, FALSE,
              Done(save_fund_rating(db, code, Today(now), "M",
                                    [y1 |-> stars, y2 |-> stars, y3 |-> stars]),
                   Rating(code, stars), <<>>, FALSE))

GetFundList ==
  /\ Len(db.update_log) < MaxRows
  /\ \E use_cache \in BOOLEAN, ak \in FundListOutcomes :
       Called("get_fund_list", "", use_cache, get_fund_list(db, now, use_cache, ak))

GetDailyNav ==
  /\ Len(db.update_log) < MaxRows
  /\ Cardinality(db.fund_nav) < MaxRows
  /\ \E ak \in DailyNavOutcomes(now), ak_list \in FundListOutcomes,
        sina \in BatchNavOutcomes(now) :
       Called("get_daily_nav", "", TRUE, get_daily_nav(db, now, ak, ak_list, sina))

\* a call that the cache answers writes nothing and is not bounded
GetFundNav ==
  \E code \in Codes, use_cache \in BOOLEAN :
    /\ \/ Cardinality(db.fund_nav) < MaxRows
       \/ use_cache /\ NavIsFresh(get_latest_nav(db, code), now)
    /\ \E ak \in HistoryOutcomes(code, now), sina \in SinaNavOutcomes(code, now) :
         Called("get_fund_nav", code, use_cache,
                get_fund_nav(db, now, code, use_cache, ak, sina))

\* get_fund_history(code) with the default of 365 days
GetFundHistory ==
  /\ Cardinality(db.fund_nav) < MaxRows
  /\ \E code \in Codes : \E ak \in HistoryOutcomes(code, now) :
       Called("get_fund_history", code, TRUE, get_fund_history(db, now, code, 365, ak))

GetFundBasicInfo ==
  \E code \in Codes : \E ak \in BasicInfoOutcomes(code) :
    Called("get_fund_basic_info", code, TRUE, get_fund_basic_info(db, now, code, ak))

GetFundHoldings ==
  /\ Len(db.fund_holdings) < MaxRows
  /\ \E code \in Codes, ak \in HoldingsOutcomes, tushare \in HoldingsOutcomes :
       Called("get_fund_holdings", code, TRUE,
              get_fund_holdings(db, now, cfg.tushare_token, code, ak, tushare))

GetFundRanking ==
  \E ak \in RankingOutcomes, jq \in RankingOutcomes :
    Called("get_fund_ranking", "", FALSE, get_fund_ranking(db, cfg.jq_login, ak, jq))

GetFundRating ==
  /\ Len(db.fund_rating) < MaxRows
  /\ \E code \in Codes, ak \in RatingOutcomes :
       Called("get_fund_rating", code, TRUE, get_fund_rating(db, now, code, ak))

\* FundExpertAgent._preload_size_data for one instrument of the shortlist;
\* the row of the table has no key net_asset_size, so the size is fetched
PreloadSize ==
  \E code \in Codes, size \in SizeOutcomes :
    Called("_preload_size_data", code, FALSE,
           IF ~size.raises /\ size.value # None
           THEN Done(save_fund_basic(db, code, SizePayload(code, size.value), now),
                     SizePayload(code, size.value), <<"akshare">>, TRUE)
           ELSE Done(db, None, <<"akshare">>, FALSE))

\* the basic-info table: the resolver, the loader scripts and the prefetch
BasicNext ==
  \/ Tick(BasicDays)
  \/ SaveFundBasic
  \/ GetFundBasicInfo
  \/ PreloadSize

SpecBasic == CacheInit /\ [][BasicNext]_vars

\* the valuation table
NavNext ==
  \/ Tick(NavDays)
  \/ SaveFundNav
  \/ GetFundNav
  \/ GetFundHistory

SpecNav == CacheInit /\ [][NavNext]_vars

\* the bulk datasets
BulkNext ==
  \/ Tick(BulkDays)
  \/ GetFundList
  \/ GetDailyNav
  \/ GetFundRanking

SpecBulk == CacheInit /\ [][BulkNext]_vars

\* the holdings and rating tables
HoldingsNext ==
  \/ Tick(HoldingDays)
  \/ SaveFundHoldings
  \/ GetFundHoldings
  \/ SaveFundRating
  \/ GetFundRating

SpecHoldings == CacheInit /\ [][HoldingsNext]_vars

(***************************************************************************)
(* The size prefetch.  main.py runs every turn as                          *)
(* asyncio.run(manager.process(text)).  process() awaits coroutines that   *)
(* make blocking calls only, so it runs to its end without giving the loop *)
(* a turn; the task made by asyncio.create_task in _screen_funds is in the *)
(* ready queue before the callback that stops the loop, and its body has   *)
(* no suspension either: it goes through the whole shortlist, and then     *)
(* asyncio.run returns the reply.                                          *)
(***************************************************************************)
\* asyncio.create_task was reached in _screen_funds: the cycle ran and
\* get_fund_ranking did not raise
Launched(r, ranking) == r.m.cycle.ran /\ ~ranking.raises

\* fund_codes = [f.get('fund_code') for f in self.screened_funds]
FundCodes(funds) == [i \in 1..Len(funds) |-> funds[i].fund_code]

\* asyncio.run(manager.process(...)): process() runs to its return
Run(r, ranking) ==
  /\ Returned(r)
  /\ loop' = [running |-> TRUE,
              task |-> IF Launched(r, ranking)
                         THEN FundCodes(r.m.fund_expert_agent.screened_funds)
                         ELSE <<>>,
              fetched |-> 0]
  /\ UNCHANGED <<in_flight, db, now, cfg, call>>

RunRequirement ==
  /\ ~loop.running
  /\ current_stage = STAGE_REQUIREMENT /\ CanProcess
  /\ \E o1 \in IntakeOutcomes, o2 \in GreetingOutcomes :
       Run(process(Manager, llm, "nihao", <<o1, o2>>, NoRanking), NoRanking)

RunRisk ==
  /\ ~loop.running
  /\ current_stage = STAGE_RISK /\ CanProcess
  /\ Len(validation_history) + 2 <= MaxValidations
  /\ \E o \in RiskOutcomes, g1 \in GenOutcomes, g2 \in GenOutcomes,
        g3 \in LaterGenOutcomes, g4 \in LaterGenOutcomes, ranking \in Rankings :
       Run(process(Manager, llm, "nihao", <<o, g1, g2, g3, g4>>, ranking), ranking)

RunRecommendation ==
  /\ ~loop.running
  /\ current_stage = STAGE_RECOMMENDATION /\ CanProcess
  /\ \E o \in AnswerOutcomes :
       Run(process(Manager, llm, "nihao", <<o>>, NoRanking), NoRanking)

\* one pass of the loop of _preload_size_data.  The row of the table has no
\* key net_asset_size, so the size is fetched; what the pass raises is
\* swallowed by its except
PreloadStep ==
  /\ loop.running /\ loop.task # <<>>
  /\ \E size \in SizeOutcomes :
       LET code == Head(loop.task)
           saved == ~size.raises /\ size.value # None
       IN /\ db' = IF saved
                     THEN save_fund_basic(db, code, SizePayload(code, size.value), now)
                     ELSE db
          /\ call' = [op |-> "_preload_size_data", fund_code |-> code,
                      use_cache |-> FALSE,
                      value |-> IF saved THEN SizePayload(code, size.value) ELSE None,
                      raised |-> FALSE, providers |-> <<"akshare">>, fresh |-> saved]
  /\ loop' = [loop EXCEPT !.task = Tail(@), !.fetched = @ + 1]
  /\ UNCHANGED <<now, cfg, manager_vars, critic_vars, in_flight>>

\* the loop stops and asyncio.run returns the reply to main.py
RunCompletes ==
  /\ loop.running /\ loop.task = <<>>
  /\ loop' = NoLoop
  /\ UNCHANGED <<db, now, cfg, call, manager_vars, critic_vars, in_flight>>

PrefetchInit == Init /\ llm

PrefetchNext ==
  \/ RunRequirement
  \/ RunRisk
  \/ RunRecommendation
  \/ PreloadStep
  \/ RunCompletes

SpecPrefetch == PrefetchInit /\ [][PrefetchNext]_vars

(***************************************************************************)
(* The validator alone                                                     *)
(***************************************************************************)
CriticInit ==
  /\ llm = FALSE
  /\ current_stage = GroupChatManager_init.current_stage
  /\ conversation_history = GroupChatManager_init.conversation_history
  /\ last_validation_result = GroupChatManager_init.last_validation_result
  /\ requirement_agent = GroupChatManager_init.requirement_agent
  /\ risk_agent = GroupChatManager_init.risk_agent
  /\ fund_expert_agent = GroupChatManager_init.fund_expert_agent
  /\ validation_history = GroupChatManager_init.validation_history
  /\ cycle = NoCycle
  /\ reply = <<>>
  /\ last_call = "init"
  /\ in_flight = <<>>
  /\ CacheIdle
  /\ c_text \in CriticTexts
  /\ c_level \in CriticLevels
  /\ c_result = NoResult

\* critic.validate(c_text, {}, c_level)
CriticValidate ==
  /\ c_result = NoResult
  /\ c_result' = validate(Render(c_text), EmptyProfile, c_level)
  /\ UNCHANGED <<c_text, c_level, manager_vars, in_flight, cache_vars>>

CriticNext == CriticValidate

SpecCritic == CriticInit /\ [][CriticNext]_vars

(***************************************************************************)
(* Properties of the recommendation cycle (specification Spec)             *)
(***************************************************************************)
\* a process() call has just returned after running the cycle
CycleEnded == last_call = "process" /\ cycle.ran

\* the pieces of a reply
Parts(r) == {r[i] : i \in 1..Len(r)}

\* C1: in any recommendation cycle the generator is invoked at most 3 times,
\* and the turn returns a reply made of the risk agent's text followed by
\* the outcome of the cycle, whether the validations pass or fail.
C1_AtMostThreeGenerations ==
  CycleEnded => /\ cycle.calls <= 3
                /\ Len(cycle.validations) <= 3
                /\ Len(reply) >= 2
                /\ current_stage = "recommendation"

\* a cycle in which both the generation and the regeneration were made and failed
C1_Witness ==
  /\ CycleEnded
  /\ cycle.calls = 2
  /\ cycle.validations = <<FALSE, FALSE>>

\* C2 (as claimed): when the validations of the 1st and of the 2nd attempt
\* both fail, a 3rd attempt is made and validated before a result is accepted.
C2_ThirdAttemptMade ==
  (CycleEnded /\ Len(cycle.validations) >= 2
     /\ ~cycle.validations[1] /\ ~cycle.validations[2])
  => Len(cycle.validations) = 3

\* C8 (as claimed): when the cycle ends with a failed last_validation_result,
\* the reply carries its score and its issues and no "passed" trailer.
C8_FailureSurfaced ==
  (CycleEnded /\ ~last_validation_result.passed)
  => /\ \E part \in Parts(reply) :
          /\ part.label = "warning"
          /\ part.score = last_validation_result.score
          /\ part.feedback = last_validation_result.feedback
     /\ \A part \in Parts(reply) : part.label # "passed"

\* C9 (as claimed): when the screening leaves no candidate, the reply of the
\* turn contains the "no eligible fund" message.
C9_EmptyShortlistSurfaced ==
  (CycleEnded /\ cycle.shortlist = 0)
  => TextPart(Message("noFunds")) \in Parts(reply)

\* C10 (as claimed): the history alternates user and assistant entries from a
\* user entry on, and after a process() call it ends with the utterance and
\* the reply just returned.
C10_HistoryAlternates ==
  /\ \A i \in 1..Len(conversation_history) :
        conversation_history[i].role = (IF i % 2 = 1 THEN "user" ELSE "assistant")
  /\ last_call = "process"
       => /\ Len(conversation_history) >= 2
          /\ conversation_history[Len(conversation_history)] = Entry("assistant", reply)

(***************************************************************************)
(* Properties of the validator (specification SpecCritic)                  *)
(***************************************************************************)
Validated1 == c_result # NoResult

\* the tokens of the validated text
CTokens == Render(c_text)

\* the allocation figures written in the text with a percent sign
RECURSIVE Figures(_)
Figures(fs) ==
  IF fs = <<>> THEN <<>>
  ELSE (IF Head(fs).alloc >= 0 /\ Head(fs).pct THEN <<Head(fs).alloc>> ELSE <<>>)
       \o Figures(Tail(fs))

\* the fund types the text names
TypesNamed(t) == {t.funds[i].word : i \in 1..Len(t.funds)}

\* the deductions of the checks other than the allocation sum
OtherThanAllocation ==
  (IF _validate_xml_format(CTokens).valid THEN 0 ELSE 20)
  + (IF _validate_risk_disclosure(CTokens).valid THEN 0 ELSE 20)
  + (IF _validate_risk_level_match(CTokens, c_level).valid THEN 0 ELSE 25)
  + (IF _validate_disclaimer(CTokens).valid THEN 0 ELSE 10)

\* the deductions of the checks other than the risk level match
OtherThanRiskLevel ==
  (IF _validate_xml_format(CTokens).valid THEN 0 ELSE 20)
  + (IF _validate_allocation_sum(CTokens).valid THEN 0 ELSE 25)
  + (IF _validate_risk_disclosure(CTokens).valid THEN 0 ELSE 20)
  + (IF _validate_disclaimer(CTokens).valid THEN 0 ELSE 10)

\* C3: every ValidationResult has 0 <= score <= 100 and passed = (score >= 60).
C3_ScoreRangeAndPass ==
  Validated1 => /\ 0 <= c_result.score /\ c_result.score <= 100
                /\ c_result.passed = (c_result.score >= 60)

\* a result exactly at the pass mark
C3_Witness == Validated1 /\ c_result.score = 60 /\ c_result.passed

\* C4: the score is 100 minus 20, 25, 20, 25 and 10 for the failing ones of
\* the five checks, each check evaluated whatever the others give; a text
\* that passes all five scores 100 and passes.
C4_ScoreIsSumOfDeductions ==
  Validated1 =>
    /\ c_result.score = 100 - OtherThanAllocation
                          - (IF _validate_allocation_sum(CTokens).valid THEN 0 ELSE 25)
    /\ (OtherThanAllocation = 0 /\ _validate_allocation_sum(CTokens).valid)
         => (c_result.score = 100 /\ c_result.passed /\
             (c_level # "" => c_result.feedback = <<>>))

\* the valid recommendation of scenario A, validated for the balanced tier
C4_Witness ==
  /\ Validated1 /\ c_text = ScenarioA /\ c_level = "balanced"
  /\ c_result = ValidationResult(TRUE, <<>>, 100)

\* the texts of scenario B: two funds of 50% and 40%, everything else valid
ScenarioBCase ==
  /\ Validated1 /\ c_level = "balanced" /\ c_text.kind = "xml"
  /\ Len(c_text.funds) = 2
  /\ Figures(c_text.funds) = <<100, 80>>
  /\ OtherThanAllocation = 0

\* the same text with the second allocation changed to 50%
WithFullAllocation(t) == [t EXCEPT !.funds[2].alloc = 100]

\* C5 (as claimed): such a text fails, with a score 25 below the score of
\* the same text with allocations summing to 100.
C5_SumNinetyFails ==
  ScenarioBCase =>
    /\ c_result.passed = FALSE
    /\ c_result.score
         = validate(Render(WithFullAllocation(c_text)), EmptyProfile, c_level).score - 25

\* C5 (amended): such a text scores 75, 25 below the score of the same text
\* with allocations summing to 100, and passes, 75 being above the pass mark.
C5_SumNinetyScores75 ==
  ScenarioBCase =>
    /\ c_result.passed = TRUE
    /\ c_result.score = 75
    /\ c_result.score
         = validate(Render(WithFullAllocation(c_text)), EmptyProfile, c_level).score - 25

C5_Witness == ScenarioBCase /\ c_text = ScenarioB

\* C6: the 25 points of the allocation sum are deducted exactly when no
\* allocation figure is extracted or the figures sum to more than 1 away
\* from 100 (figures in half percent).
C6_AllocationDeduction ==
  Validated1 =>
    LET figures == IF c_text.kind = "xml" THEN Figures(c_text.funds) ELSE <<>>
        off == figures = <<>> \/ SumSeq(figures) < 198 \/ SumSeq(figures) > 202
    IN /\ c_result.score = 100 - OtherThanAllocation - (IF off THEN 25 ELSE 0)
       /\ off <=> \E i \in 1..Len(c_result.feedback) :
                     c_result.feedback[i].code \in {"no_allocation", "allocation_sum"}

\* figures summing to 101 percent, the edge of the tolerance: no deduction
C6_Witness ==
  /\ Validated1 /\ c_text.kind = "xml"
  /\ SumSeq(Figures(c_text.funds)) = 202
  /\ c_result.score = 100

\* C7: the risk level check fails, costing 25, when the tier is conservative
\* and the text names a banned type, whatever the allocation check gives,
\* and when the tier is aggressive and the text names no growth type; for
\* the balanced and growth tiers it never fails.
C7_RiskLevelCheck ==
  Validated1 =>
    LET banned == TypesNamed(c_text) \cap
                    {"gupiaoxing", "hangyezhuti", "chuangyeban", "kechuangban"} # {}
        growing == TypesNamed(c_text) \cap {"gupiaoxing", "hunhexing", "zhishuxing"} # {}
    IN /\ (c_level = "conservative" /\ banned)
            => c_result.score = 100 - OtherThanRiskLevel - 25
       /\ (c_level = "aggressive" /\ ~growing)
            => c_result.score = 100 - OtherThanRiskLevel - 25
       /\ c_level \in {"balanced", "growth"}
            => c_result.score = 100 - OtherThanRiskLevel

\* a conservative recommendation naming a ChiNext fund with allocations of
\* 50% and 50%: only the risk level check fails
C7_Witness ==
  /\ Validated1 /\ c_level = "conservative" /\ c_text.kind = "xml"
  /\ "chuangyeban" \in TypesNamed(c_text)
  /\ _validate_allocation_sum(CTokens).valid
  /\ c_result.score = 75

(***************************************************************************)
(* Properties of reset and of the complete stage (specification Spec)      *)
(***************************************************************************)
\* the three sub-agents that reset() resets are as constructed
AgentsCleared(m) ==
  /\ m.requirement_agent = RequirementAgent_init
  /\ m.risk_agent = RiskAgent_init
  /\ m.fund_expert_agent = FundExpertAgent_init

\* C11 (as claimed): after reset() every component of the state is as in a
\* freshly constructed manager, the last validation result and the
\* validator's history included, and a second reset() changes nothing.
C11_ResetRestoresInitial ==
  last_call = "reset"
  => /\ current_stage = GroupChatManager_init.current_stage
     /\ conversation_history = GroupChatManager_init.conversation_history
     /\ AgentsCleared(Manager)
     /\ last_validation_result = GroupChatManager_init.last_validation_result
     /\ validation_history = GroupChatManager_init.validation_history
     /\ reset(Manager) = Manager

GeneratorStages == {"requirement", "risk", "recommendation"}

\* C13 (specification SpecNoLLM): without a generator every process() call
\* in the requirement, risk and recommendation stages returns the "LLM
\* client not initialised" reply and changes neither the stage nor any
\* sub-agent's completion flag, profile, tier or other field.
C13_NoGeneratorSentinel ==
  [][(last_call' = "process" /\ current_stage \in GeneratorStages)
       => /\ reply' = <<TextPart(Message("noLLM"))>>
          /\ UNCHANGED <<current_stage, requirement_agent, risk_agent, fund_expert_agent,
                         last_validation_result, validation_history>>]_vars

\* the sentinel returned in the recommendation stage
C13_Witness ==
  /\ ~llm /\ last_call = "process" /\ current_stage = "recommendation"
  /\ reply = <<TextPart(Message("noLLM"))>>

\* the replies that start with the system error marker
SystemErrors ==
  {Message(k) : k \in {"requirementError", "riskError", "generateError",
                       "regenerateError", "chatError"}}

Marked(part) == part.text \in SystemErrors

\* C14 (specification Spec): whichever generator call of a turn raises,
\* process() returns a reply; when the failing call is the one whose text
\* would be the reply (intake, risk, regeneration, follow-up answer), the
\* reply carries the system error marker in that place; a failing greeting
\* or first generation alone leaves a reply without the marker.
C14_GeneratorFailureMarked ==
  last_call = "process" =>
    /\ Len(reply) >= 1
    /\ "intake" \in cycle.raised => (Len(reply) = 1 /\ Marked(reply[1]))
    /\ "risk" \in cycle.raised => Marked(reply[1])
    /\ "regenerate" \in cycle.raised => Marked(reply[Len(reply)])
    /\ "answer" \in cycle.raised => (Len(reply) = 1 /\ Marked(reply[1]))
    /\ cycle.raised \subseteq {"greeting", "generate"} => \A i \in 1..Len(reply) : ~Marked(reply[i])

\* a turn whose risk call succeeded and whose regeneration raised
C14_Witness ==
  /\ llm /\ CycleEnded /\ Len(reply) = 2
  /\ cycle.raised = {"regenerate"}
  /\ ~Marked(reply[1])
  /\ reply[2] = TextPart(Message("regenerateError"))

\* C15 (as claimed): a process() turn whose generator call fails leaves the
\* state of every sub-agent (its history, completion flag, profile, tier,
\* recommendation) exactly as it was before the turn.
C15_FailedTurnChangesNothing ==
  [][(last_call' = "process" /\ ~cycle'.ran
        /\ cycle'.raised \in {{"intake"}, {"risk"}, {"answer"}})
       => UNCHANGED <<requirement_agent, risk_agent, fund_expert_agent>>]_vars

(***************************************************************************)
(* Properties of the stage transitions (specification Spec)                *)
(***************************************************************************)
\* the text returned by a turn contains the marker
Announces(r, marker) == Len(r) >= 1 /\ marker \in r[1].text.words

\* h with one more exchange of the agent: the user message and, unless the
\* generator raised, the assistant message
OneMoreTurn(h) == {Append(h, "user"), h \o <<"user", "assistant">>}

\* C16: in the requirement-stage turn whose generated text contains the
\* completion marker the stage becomes risk and the risk agent is given
\* exactly one turn, the greeting; in every other requirement-stage turn the
\* stage and the risk agent stay as they are.
C16_IntakeToRisk ==
  [][(current_stage = "requirement" /\ last_call' = "process")
       => IF Announces(reply', "REQUIREMENT_DONE")
          THEN /\ current_stage' = "risk"
               /\ risk_agent'.conversation_history
                    \in OneMoreTurn(risk_agent.conversation_history)
          ELSE /\ current_stage' = "requirement"
               /\ risk_agent' = risk_agent]_vars

\* the turn that completes the intake, with the greeting answered
C16_Witness ==
  /\ last_call = "process" /\ current_stage = "risk"
  /\ Announces(reply, "REQUIREMENT_DONE")
  /\ requirement_agent.is_complete
  /\ risk_agent.conversation_history = <<"user", "assistant">>

\* the step is a reset: reset() itself or a restart in the complete stage
IsReset ==
  \/ last_call' = "reset"
  \/ current_stage = "complete" /\ last_call' = "process" /\ current_stage' = "requirement"

\* C17: the generate-and-validate cycle runs in the process() call that
\* moves the stage from risk to recommendation and in no other call; the
\* expert agent is then as constructed or reset (no cycle has run before in
\* this conversation), and stays set until the next reset; the outcome of
\* the cycle is part of the reply of that turn; process() calls in the
\* recommendation stage run no validation.
C17_CycleOncePerConversation ==
  [][/\ last_call' = "process" =>
          /\ cycle'.ran <=> (current_stage = "risk" /\ current_stage' = "recommendation")
          /\ cycle'.ran =>
                /\ fund_expert_agent = FundExpertAgent_init
                /\ fund_expert_agent' # FundExpertAgent_init
                /\ Len(reply') >= 2
                /\ Len(validation_history') > Len(validation_history)
                /\ last_validation_result' = validation_history'[Len(validation_history')]
          /\ ~cycle'.ran => UNCHANGED <<last_validation_result, validation_history>>
     /\ (fund_expert_agent # FundExpertAgent_init /\ ~IsReset)
          => fund_expert_agent' # FundExpertAgent_init]_vars

\* a follow-up question answered after the cycle of the conversation
C17_Witness ==
  /\ last_call = "process" /\ current_stage = "recommendation" /\ ~cycle.ran
  /\ fund_expert_agent # FundExpertAgent_init
  /\ last_validation_result = validation_history[Len(validation_history)]

\* C18: a process() call in the risk stage moves the stage to recommendation
\* if and only if the text the risk handler produced in that call contains
\* the risk completion marker, and that call is the one that sets the tier.
C18_RiskMarkerAdvances ==
  [][(current_stage = "risk" /\ last_call' = "process")
       => /\ (current_stage' = "recommendation") <=> Announces(reply', "RISK_DONE")
          /\ (current_stage' = "recommendation")
               => (risk_agent.risk_level = "" /\ risk_agent'.risk_level # "")]_vars

\* C19: in a process() call that is not a restart, a tier that is set is
\* not assigned again; in the recommendation and complete stages neither
\* the tier nor the profile changes; the profile changes only in a call
\* handled by the intake handler.
C19_TierAndProfileSetOnce ==
  [][(last_call' = "process" /\ ~IsReset)
       => /\ risk_agent.risk_level # "" => risk_agent'.risk_level = risk_agent.risk_level
          /\ current_stage \in {"recommendation", "complete"}
               => /\ risk_agent'.risk_level = risk_agent.risk_level
                  /\ requirement_agent'.user_profile = requirement_agent.user_profile
          /\ requirement_agent'.user_profile # requirement_agent.user_profile
               => current_stage = "requirement"]_vars

\* no two entries of h that follow each other have the same role
Alternates(h) == \A i \in 1..(Len(h) - 1) : h[i].role # h[i + 1].role

\* C20: when no process() call is waiting, the state is one that calls made
\* one after the other produce: in the history every utterance is followed
\* by its reply and every reply by the next utterance.
C20_TurnsSerialized == in_flight = <<>> => Alternates(conversation_history)

\* the last call wrote the payload call.value to the basic-info entry of
\* call.fund_code
WroteBasic ==
  \/ call.op = "save_fund_basic"
  \/ call.op \in {"_preload_size_data", "get_fund_basic_info"} /\ call.fresh

\* the row holds every field of the payload
HoldsPayload(row, payload) ==
  \A k \in DOMAIN payload : k \in DOMAIN row /\ row[k] = payload[k]

\* C22: whatever the order in which the resolver, the loaders and the
\* prefetch have written the basic-info entry of an instrument, after a
\* write the entry is there and holds the complete payload of that write.
C22_LastWriteComplete ==
  WroteBasic => /\ get_fund_basic(db, call.fund_code) # None
                /\ HoldsPayload(get_fund_basic(db, call.fund_code), call.value)

\* C24: after save_fund_basic(code, payload) with a payload of sizes,
\* get_fund_basic(code) returns a record with the net_asset_size and the
\* share_size of the payload and a null fund_name.
C24_SizeRoundTrip ==
  (call.op = "save_fund_basic" /\ "net_asset_size" \in DOMAIN call.value)
    => /\ get_fund_basic(db, call.fund_code) # None
       /\ DictGet(get_fund_basic(db, call.fund_code), "net_asset_size")
            = call.value.net_asset_size
       /\ DictGet(get_fund_basic(db, call.fund_code), "share_size")
            = call.value.share_size
       /\ get_fund_basic(db, call.fund_code).fund_name = NULL

\* the days after which a cached size record is stale
SizeStaleDays == 7

\* C26: get_fund_basic_info returns a cached record without calling a
\* provider only if the record was written at most 7 days ago.
C26_BasicInfoWithinSevenDays ==
  [][(call'.op = "get_fund_basic_info" /\ call'.providers = <<>>)
       => /\ get_fund_basic(db, call'.fund_code) # None
          /\ now - get_fund_basic(db, call'.fund_code).updated_at
               <= SizeStaleDays * HoursPerDay]_vars

\* the rows of a sequence have different keys
Distinct(rows, Key(_)) ==
  \A i, j \in DOMAIN rows : Key(rows[i]) = Key(rows[j]) => i = j

\* the rows of a set have different keys
DistinctIn(rows, Key(_)) ==
  \A r, q \in rows : Key(r) = Key(q) => r = q

\* C23: in each keyed table there is at most one entry per key: fund_basic
\* by code, fund_nav by code and date, fund_holdings by code, report date
\* and constituent, fund_rating by code, rating date and agency; and the
\* entry a write leaves under its key is the one it wrote.
C23_OneEntryPerKey ==
  /\ DistinctIn(db.fund_basic, LAMBDA r : r.fund_code)
  /\ DistinctIn(db.fund_nav, LAMBDA r : <<r.fund_code, r.nav_date>>)
  /\ Distinct(db.fund_holdings, LAMBDA r : <<r.fund_code, r.report_date, r.stock_code>>)
  /\ Distinct(db.fund_rating, LAMBDA r : <<r.fund_code, r.rating_date, r.rating_agency>>)

\* ---------------------------------------------------------------------------
\* C25: get_fund_nav with the cache enabled returns the cached latest
\* valuation and calls no provider when that valuation is dated today, and
\* calls a provider when the cached latest valuation is dated two or more
\* days ago.
\* a step that is a call of get_fund_nav(code, use_cache=True)
NavCall == call'.op = "get_fund_nav" /\ call'.use_cache /\ now' = now

CachedNav == get_latest_nav(db, call'.fund_code)

C25_NavStaleness ==
  [][NavCall /\ CachedNav # None =>
       /\ CachedNav.nav_date = Today(now) =>
            call'.providers = <<>> /\ call'.value = CachedNav /\ db' = db
       /\ Today(now) - CachedNav.nav_date >= 2 => call'.providers # <<>>]_vars

\* a valuation dated two days ago was in the cache and a provider was called,
\* after a call that served a valuation dated the same day from the cache
C25_Witness ==
  /\ call.op = "get_fund_nav" /\ call.use_cache
  /\ call.providers # <<>>
  /\ \E r \in db.fund_nav : Today(now) - r.nav_date >= 2
  /\ \A r \in db.fund_nav : r.nav_date = Today(now) \/ Today(now) - r.nav_date >= 2

\* a valuation dated today is served from the cache with no provider called
C25_WitnessToday ==
  /\ call.op = "get_fund_nav" /\ call.use_cache
  /\ call.providers = <<>>
  /\ call.value # None /\ call.value.nav_date = Today(now)

\* ---------------------------------------------------------------------------
\* C27: when a resolver operation returns a payload freshly obtained from a
\* provider, primary or fallback, the payload is in the cache when the
\* operation returns: the cache read for the same key finds it.
C27_FreshIsCached ==
  /\ call.op = "get_fund_holdings" /\ call.fresh =>
       get_latest_holdings(db, call.fund_code) # <<>>
  /\ call.op = "get_fund_rating" /\ call.fresh =>
       get_latest_rating(db, call.fund_code) # None

\* the part of it that the code keeps: a payload of the primary provider
C27_PrimaryIsCached ==
  /\ call.op = "get_fund_holdings" /\ call.fresh /\ call.providers = <<"akshare">> =>
       get_latest_holdings(db, call.fund_code) # <<>>
  /\ call.op = "get_fund_rating" /\ call.fresh =>
       get_latest_rating(db, call.fund_code) # None

\* ---------------------------------------------------------------------------
\* C28: for the bulk datasets, when the first provider raises or returns an
\* empty result the resolver calls the next provider before it returns: an
\* empty ranking or an empty daily valuation list is returned only after the
\* next provider (JoinQuant with its login configured, Sina) was called.
C28_NextProviderTried ==
  /\ call.op = "get_fund_ranking" /\ cfg.jq_login /\ call.value = <<>> =>
       call.providers = <<"akshare", "jq">>
  /\ call.op = "get_daily_nav" /\ call.value = <<>> =>
       call.providers[Len(call.providers)] = "sina"

\* the part of it that the code keeps: when the first provider raises, the
\* ranking comes from JoinQuant if its login is configured
C28_RaisingPrimaryFallsBack ==
  [][/\ call'.op = "get_fund_ranking" /\ now' = now
     /\ cfg.jq_login /\ call'.providers = <<"akshare">>
     => \E ak \in RankingOutcomes : ~ak.raises /\ call'.value = ak.value]_vars

\* ---------------------------------------------------------------------------
\* C29: no resolver operation raises to its caller, whatever the state of the
\* cache and whatever the providers do.
C29_NeverRaises == ~call.raised

\* ---------------------------------------------------------------------------
\* C30: get_fund_list(use_cache=True) returns the cached list and calls no
\* provider when the last successful 'fund_list' entry of the update log is
\* younger than the update interval; when the entry is older or absent, the
\* provider is called.
ListCall == call'.op = "get_fund_list" /\ call'.use_cache /\ now' = now

C30_ListFromFreshCache ==
  [][ListCall =>
       IF ListIsFresh(db, now)
         THEN ~call'.raised /\ call'.providers = <<>> /\ db' = db
         ELSE call'.providers = <<"akshare">>]_vars

\* the part of it that the code keeps: no provider is called on a fresh
\* entry, and the provider is called on an old or absent one
C30_ProviderCalledWhenStale ==
  [][ListCall => (call'.providers = <<>>) = ListIsFresh(db, now)]_vars

\* ---------------------------------------------------------------------------
\* C21: the size prefetch launched after screening never delays, changes or
\* fails the turn that launched it.  Not delayed: as long as the run of the
\* turn has not handed its reply to the caller, the prefetch has gone through
\* no instrument.
C21_ReplyNotDelayed == loop.running => loop.fetched = 0

\* the parts of it that the code keeps: a pass of the prefetch leaves the
\* manager, its agents and the reply as process() left them, and raises
\* nothing
C21_TurnUnchanged ==
  [][loop'.fetched = loop.fetched + 1 =>
       UNCHANGED <<manager_vars, critic_vars>> /\ ~call'.raised]_vars

\* and an instrument whose fetch failed does not stop the prefetch: when the
\* run ends, every instrument of the shortlist was gone through
C21_ErrorsSwallowed ==
  [][loop.running /\ ~loop'.running =>
       loop.task = <<>> /\ loop.fetched = cycle.shortlist]_vars

\* ---------------------------------------------------------------------------
\* C32: when the completion text of the intake holds no recognisable value
\* for an attribute of the profile (amount, horizon, goal, experience),
\* _extract_profile leaves that attribute as it was.
PeriodWords ==
  {"duanqi", "1nianyinei", "jigeyue", "zhongqi", "1-3nian", "yiliangnian",
   "changqi", "3nianyishang", "sannianyishang", "wunian"}

GoalWords == {"baozhi", "wenjian", "fengxianxiao", "gaoshouyi", "jijin", "fengxianda"}

ExperienceWords ==
  {"meiyoujingyan", "diyici", "xinshou", "youyixiejingyan", "maiguo",
   "jingyanfengfu", "laoshou", "duonian"}

\* the step is the turn in which the intake completes
IntakeCompletes ==
  /\ last_call' = "process" /\ current_stage = STAGE_REQUIREMENT
  /\ ~requirement_agent.is_complete /\ requirement_agent'.is_complete

C32_UnrecognisedLeftUnset ==
  [][IntakeCompletes =>
       LET text == reply'[1].text
           old == requirement_agent.user_profile
           new == requirement_agent'.user_profile
       IN /\ ~("wan" \in text.words /\ text.nums # <<>>) =>
               new.investment_amount = old.investment_amount
          /\ ~AnyIn(text, PeriodWords) => new.investment_period = old.investment_period
          /\ ~AnyIn(text, GoalWords) => new.investment_goal = old.investment_goal
          /\ ~AnyIn(text, ExperienceWords) => new.experience = old.experience]_vars

\* the part of it that the code keeps: amount, horizon and experience
C32_OthersLeftUnset ==
  [][IntakeCompletes =>
       LET text == reply'[1].text
           old == requirement_agent.user_profile
           new == requirement_agent'.user_profile
       IN /\ ~("wan" \in text.words /\ text.nums # <<>>) =>
               new.investment_amount = old.investment_amount
          /\ ~AnyIn(text, PeriodWords) => new.investment_period = old.investment_period
          /\ ~AnyIn(text, ExperienceWords) => new.experience = old.experience]_vars

\* ---------------------------------------------------------------------------
\* C33: validate returns passed = false only if at least two of the five
\* checks fail; a text that fails exactly one check, whichever it is, passes;
\* and the clamp to [0, 100] never changes the computed score.
CheckOutcomes ==
  <<_validate_xml_format(CTokens).valid,
    _validate_allocation_sum(CTokens).valid,
    _validate_risk_disclosure(CTokens).valid,
    _validate_risk_level_match(CTokens, c_level).valid,
    _validate_disclaimer(CTokens).valid>>

FailedChecks == {i \in 1..5 : ~CheckOutcomes[i]}

\* the number of failing checks among the five outcomes
Failing(xml, allocation, disclosure, risk, disclaimer) ==
  (IF xml.valid THEN 0 ELSE 1) + (IF allocation.valid THEN 0 ELSE 1)
  + (IF disclosure.valid THEN 0 ELSE 1) + (IF risk.valid THEN 0 ELSE 1)
  + (IF disclaimer.valid THEN 0 ELSE 1)

PassesUnlessTwoFail(result, failing, unclamped) ==
  /\ ~result.passed => failing >= 2
  /\ failing = 1 => result.passed
  /\ result.score = unclamped
  /\ unclamped >= 0

PassesOnOutcomes(xml, allocation, disclosure, risk, disclaimer) ==
  PassesUnlessTwoFail(c_result, Failing(xml, allocation, disclosure, risk, disclaimer),
                      Deducted(xml, allocation, disclosure, risk, disclaimer))

C33_TwoFailuresToFail ==
  Validated1 =>
    PassesOnOutcomes(_validate_xml_format(CTokens), _validate_allocation_sum(CTokens),
                     _validate_risk_disclosure(CTokens),
                     _validate_risk_level_match(CTokens, c_level),
                     _validate_disclaimer(CTokens))

\* a text that fails the risk-level check alone, and passes
C33_Witness ==
  /\ Validated1 /\ FailedChecks = {4}
  /\ c_result.passed /\ c_result.score = 75

\* ---------------------------------------------------------------------------
\* C34: between resets the stage only moves forward in the order
\* requirement -> risk -> recommendation, by at most one step per process()
\* call; only reset() returns it to requirement.
OneStepForward(from, to) ==
  \/ to = from
  \/ from = STAGE_REQUIREMENT /\ to = STAGE_RISK
  \/ from = STAGE_RISK /\ to = STAGE_RECOMMENDATION

C34_StageMovesForward ==
  [][/\ last_call' = "process" => OneStepForward(current_stage, current_stage')
     /\ (current_stage # STAGE_REQUIREMENT /\ current_stage' = STAGE_REQUIREMENT)
          => last_call' = "reset"]_vars

\* the recommendation stage was reached, a question was answered in it, and
\* the conversation is now past a reset and in the risk stage again
C34_Witness ==
  /\ current_stage = STAGE_RISK /\ last_call = "process"
  /\ validation_history # <<>>

ValidationOfStored ==
  validate(Render(fund_expert_agent.recommendation), requirement_agent.user_profile,
           risk_agent.risk_level)

\* C36: whenever last_validation_result is set, it is the result of
\* validating the text that get_recommendation() returns, the stored most
\* recent generated text of the expert agent.
C36_ResultIsOfStoredText ==
  last_validation_result # NoResult => last_validation_result = ValidationOfStored

\* ---------------------------------------------------------------------------
\* the fields of a basic-info entry that the prefetch is not about
KeptFields == {"fund_name", "fund_type", "company", "manager"}

\* the prefetch of one instrument ran in this step
PrefetchRan == call'.op = "_preload_size_data" /\ now' = now

\* C38: the size prefetch never removes or nulls a cached field (name,
\* category, sponsor, manager) of an instrument's basic-info entry: after it
\* ran, every such field has the value it had before.
C38_PrefetchKeepsFields ==
  [][PrefetchRan =>
       \A code \in Codes :
         get_fund_basic(db, code) # None =>
           /\ get_fund_basic(db', code) # None
           /\ \A k \in KeptFields :
                get_fund_basic(db', code)[k] = get_fund_basic(db, code)[k]]_vars

\* the prefetch found nothing to save and left the entry alone
C38_FailedPrefetchKeepsFields ==
  [][(PrefetchRan /\ ~call'.fresh) => db' = db]_vars

\* ---------------------------------------------------------------------------
\* two results of get_fund_nav are the same valuation point
SamePoint(a, b) ==
  IF a = None \/ b = None THEN a = b
  ELSE a.nav_date = b.nav_date /\ a.unit_nav = b.unit_nav

\* a get_fund_nav that fetched from a provider is followed, with no cache
\* write in between, by a get_fund_nav of the same instrument that is
\* answered from the cache
HitAfterFetch ==
  /\ call.op = "get_fund_nav" /\ call.fresh
  /\ call'.op = "get_fund_nav" /\ call'.fund_code = call.fund_code
  /\ call'.use_cache /\ call'.providers = <<>>
  /\ db' = db

\* C39: two consecutive get_fund_nav calls for the same instrument, with no
\* cache write in between, return the same valuation point: the point
\* returned right after a provider fetch is the one that the following
\* cache hit returns.
C39_HitRepeatsFetch ==
  [][HitAfterFetch => SamePoint(call'.value, call.value)]_vars

\* the same, for fetches that returned the latest point of what they saved
C39_HitRepeatsLatestFetch ==
  [][(HitAfterFetch /\ SamePoint(call.value, get_latest_nav(db, call.fund_code)))
       => SamePoint(call'.value, call.value)]_vars

(***************************************************************************)
(* Screening over the cached tables: the statistics that _screen_funds     *)
(* reads are computed from the valuation and rating rows of the cache.     *)
(* Valuations are whole numbers; drawdown and volatility are kept in       *)
(* hundredths of a percent, the two decimals that round(x, 2) keeps.       *)
(***************************************************************************)
\* ranking[:100]: the entries whose statistics are looked up
CacheLimit == 100

\* LIMIT 252: the valuation rows of one year
YearRows == 252

\* the trading days of a year in the annualisation
TradingDays == 252

\* round(a / b) for a >= 0 and b > 0
RoundDiv(a, b) == (2 * a + b) \div (2 * b)

\* s[:n]
Prefix(s, n) == SubSeq(s, 1, Min(n, Len(s)))

\* the greatest whole number whose square is at most x
RECURSIVE SqrtBetween(_, _, _)
SqrtBetween(x, lo, hi) ==
  IF lo >= hi THEN lo
  ELSE LET mid == (lo + hi + 1) \div 2
       IN IF mid * mid <= x THEN SqrtBetween(x, mid, hi) ELSE SqrtBetween(x, lo, mid - 1)

ISqrt(x) == SqrtBetween(x, 0, Min(x, 46340))

\* SELECT unit_nav ... ORDER BY nav_date DESC LIMIT 252: the rows of a fund,
\* newest first
NavRows(d, code) == Prefix(ByDateDesc({r \in d.fund_nav : r.fund_code = code}), YearRows)

\* [row['unit_nav'] for row in rows if row['unit_nav']]
TruthyNavs(rows) ==
  LET kept == SelectSeq(rows, LAMBDA r : r.unit_nav # 0)
  IN [i \in 1..Len(kept) |-> kept[i].unit_nav]

\* the loop over navs: the peak so far and the deepest fall below it, in the
\* order of the list
RECURSIVE DrawdownFrom(_, _, _)
DrawdownFrom(navs, peak, max_dd) ==
  IF navs = <<>> THEN max_dd
  ELSE DrawdownFrom(Tail(navs), Max(peak, Head(navs)),
                    Max(max_dd, RoundDiv((Max(peak, Head(navs)) - Head(navs)) * 10000,
                                         Max(peak, Head(navs)))))

\* round(max_dd * 100, 2)
MaxDrawdown(navs) == DrawdownFrom(navs, navs[1], 0)

\* (navs[i] - navs[i-1]) / navs[i-1], to the hundredth of a percent
DailyReturns(navs) ==
  [i \in 1..(Len(navs) - 1) |-> ((navs[i + 1] - navs[i]) * 10000) \div navs[i]]

Squares(s) == [i \in 1..Len(s) |-> s[i] * s[i]]

\* round(sqrt(variance) * sqrt(252) * 100, 2), the variance being that of
\* the whole population of returns
Volatility(navs) ==
  LET returns == DailyReturns(navs)
      n == Len(returns)
  IN ISqrt(((n * SumSeq(Squares(returns)) - SumSeq(returns) * SumSeq(returns))
              * TradingDays) \div (n * n))

\* a fund has statistics when two or more of its rows hold a valuation
HasStatistics(d, code) ==
  Len(NavRows(d, code)) >= 2 /\ Len(TruthyNavs(NavRows(d, code))) >= 2

CodesOf(fund_codes) == {fund_codes[i] : i \in 1..Len(fund_codes)}

_get_performance_cache(d, fund_codes) ==
  [code \in {c \in CodesOf(fund_codes) : HasStatistics(d, c)} |->
     [max_drawdown |-> MaxDrawdown(TruthyNavs(NavRows(d, code))),
      volatility |-> Volatility(TruthyNavs(NavRows(d, code)))]]

\* the first row of each fund in ORDER BY rating_date DESC
_get_rating_cache(d, fund_codes) ==
  [code \in {c \in CodesOf(fund_codes) : get_latest_rating(d, c) # None} |->
     get_latest_rating(d, code)]

\* the SELECT names net_asset_size and share_size, which fund_basic does not
\* have: the statement raises, the exception is caught, the cache is empty
_get_size_cache(d, fund_codes) == [code \in {} |-> 0]

\* rating_3y or rating_2y or rating_1y or 0
FirstRating(rating) ==
  IF rating.rating_3y # 0 THEN rating.rating_3y
  ELSE IF rating.rating_2y # 0 THEN rating.rating_2y
  ELSE rating.rating_1y

\* the body of the loop over the ranking, with the caches of this call
Kept(fund, thresholds, perf_cache, ratings, sizes) ==
  LET code == fund.fund_code
      perf == Get(perf_cache, code, [max_drawdown |-> 10000, volatility |-> 5000])
      rating_3y == IF code \in DOMAIN ratings THEN FirstRating(ratings[code]) ELSE 0
      size_value == Get(sizes, code, 0)
  IN /\ ~(fund.return_1y <= 0)
     /\ ~(perf.max_drawdown > thresholds.max_drawdown * 100)
     /\ ~(perf.volatility > thresholds.volatility * 100)
     /\ ~(rating_3y < thresholds.min_rating)
     /\ ~(size_value > 0 /\ (size_value < MinSize \/ size_value > MaxSize))

\* for fund in ranking: ... screened.append(fund)
ScreenLoop(funds, thresholds, perf_cache, ratings, sizes) ==
  SelectSeq(funds, LAMBDA f : Kept(f, thresholds, perf_cache, ratings, sizes))

\* the screening with the caches built for the first `limit` entries
ScreenWith(d, agent, ranking, limit) ==
  IF ranking.raises THEN [agent EXCEPT !.screened_funds = <<>>]
  ELSE [agent EXCEPT !.screened_funds =
          Prefix(SortByReturn(
                   ScreenLoop(ranking.funds, risk_thresholds(agent.risk_level),
                              _get_performance_cache(d, FundCodes(Prefix(ranking.funds, limit))),
                              _get_rating_cache(d, FundCodes(Prefix(ranking.funds, limit))),
                              _get_size_cache(d, FundCodes(Prefix(ranking.funds, limit))))),
                 ShortlistSize)]

\* a screening that looks up the statistics of every entry of the ranking
_screen_funds_unlimited(d, agent, ranking) ==
  ScreenWith(d, agent, ranking, Len(ranking.funds))

\* FundExpertAgent._screen_funds over the cache d
_screen_funds_cached(d, agent, ranking) == ScreenWith(d, agent, ranking, CacheLimit)

\* the funds whose rows the cache can hold, and a fund it never holds
ScreenCodes == {"F1", "F2"}

Filler == Ranked("F0", 5)

\* the valuations of a fund, one a day from day 0 on; 0 is a row without a
\* valuation
Histories ==
  {<<100>>, <<100, 0>>, <<90, 100>>, <<100, 90>>, <<100, 99, 100>>, <<100, 100, 100>>}

HistoryRecords(code, navs) == [i \in 1..Len(navs) |-> NavRecord(code, i - 1, navs[i])]

\* the ratings of a fund by horizon; 0 is a horizon without a rating
StarRatings == {[y1 |-> 2, y2 |-> 0, y3 |-> 0], [y1 |-> 2, y2 |-> 4, y3 |-> 4]}

\* the rankings that get_fund_ranking returns to the screening: none, two
\* funds, and a ranking of 101 entries with F1 as the last
ScreenRankings ==
  {[raises |-> TRUE, funds |-> <<>>],
   [raises |-> FALSE, funds |-> <<Ranked("F1", 12), Ranked("F2", 30)>>],
   [raises |-> FALSE,
    funds |-> <<Ranked("F2", 30)>> \o [i \in 1..(CacheLimit - 1) |-> Filler]
                \o <<Ranked("F1", 12)>>]}

\* the history of a fund is saved, record by record
LoadNavs ==
  \E code \in ScreenCodes, navs \in Histories :
    /\ \A r \in db.fund_nav : r.fund_code # code
    /\ Called("save_fund_nav", code, FALSE,
              Done(SaveNavs(db, code, HistoryRecords(code, navs)), None, <<>>, FALSE))

\* the rating of a fund is saved
LoadRating ==
  \E code \in ScreenCodes, stars \in StarRatings :
    /\ get_latest_rating(db, code) = None
    /\ Called("save_fund_rating", code, FALSE,
              Done(save_fund_rating(db, code, 0, "M", stars), None, <<>>, FALSE))

\* FundExpertAgent.set_user_info(profile, level): the tier is set and the
\* funds are screened; call.value is the ranking the resolver returned
ScreenFunds ==
  \E level \in RISK_CONFIG_LEVELS \cup {""}, ranking \in ScreenRankings :
    /\ fund_expert_agent' =
         _screen_funds_cached(db, [fund_expert_agent EXCEPT !.risk_level = level], ranking)
    /\ call' = [op |-> "_screen_funds", fund_code |-> "", use_cache |-> TRUE,
                value |-> IF ranking.raises THEN None ELSE ranking.funds,
                raised |-> FALSE, providers |-> <<>>, fresh |-> FALSE]
    /\ UNCHANGED <<db, now, cfg, loop, llm, current_stage, conversation_history,
                   last_validation_result, requirement_agent, risk_agent,
                   validation_history, cycle, reply, last_call, critic_vars, in_flight>>

ScreenNext ==
  \/ LoadNavs
  \/ LoadRating
  \/ ScreenFunds

\* an empty cache and no provider credentials
ScreenInit == CacheInit /\ cfg = [tushare_token |-> FALSE, jq_login |-> FALSE]

SpecScreen == ScreenInit /\ [][ScreenNext]_vars

\* the screening ran in this step over the ranking call'.value
ScreenRan == call'.op = "_screen_funds" /\ call'.value # None

\* the codes of the first 100 entries of the ranking
LookedUp(funds) == CodesOf(FundCodes(Prefix(funds, CacheLimit)))

\* the rows of the valuation table of a fund
PointsOf(d, code) == {r \in d.fund_nav : r.fund_code = code}

\* C37: an instrument is in the shortlist only if it is among the first 100
\* entries of the ranking and the cache holds two or more valuation points
\* for it; without cached statistics it is excluded for every tier.
C37_ShortlistedHasStatistics ==
  [][ScreenRan =>
       \A i \in DOMAIN fund_expert_agent'.screened_funds :
         /\ fund_expert_agent'.screened_funds[i].fund_code \in LookedUp(call'.value)
         /\ Cardinality(PointsOf(db, fund_expert_agent'.screened_funds[i].fund_code)) >= 2]_vars

\* the aggressive tier was screened over the ranking of 101 entries: F2, one
\* of the first 100 with statistics, is shortlisted; F1, the last entry, has
\* statistics within the tolerances and is left out
C37_Witness ==
  /\ call.op = "_screen_funds" /\ call.value # None /\ Len(call.value) > CacheLimit
  /\ fund_expert_agent.risk_level = "aggressive"
  /\ FundCodes(fund_expert_agent.screened_funds) = <<"F2">>
  /\ HasStatistics(db, "F1")
  /\ MaxDrawdown(TruthyNavs(NavRows(db, "F1"))) = 0
  /\ Volatility(TruthyNavs(NavRows(db, "F1"))) = 0

\* the aggressive tier was screened and a fund of the first entries with one
\* valuation point was left out
C37_WitnessNoStatistics ==
  /\ call.op = "_screen_funds" /\ call.value # None /\ Len(call.value) = 2
  /\ fund_expert_agent.risk_level = "aggressive"
  /\ Cardinality(PointsOf(db, "F1")) = 1
  /\ FundCodes(fund_expert_agent.screened_funds) = <<"F2">>

\* ---------------------------------------------------------------------------
\* the reference result of the screening
RECURSIVE Reversed(_)
Reversed(s) == IF s = <<>> THEN <<>> ELSE Reversed(Tail(s)) \o <<Head(s)>>

\* the valuations of a fund from the oldest to the newest
Chronological(d, code) == Reversed(TruthyNavs(NavRows(d, code)))

\* an instrument of the universe passes the five filters of the tier; the
\* statistics are those of its cached valuations, in the order of time when
\* chronological and in the order of NavRows otherwise; its size is unknown
InReference(d, fund, thresholds, chronological) ==
  LET navs == IF chronological THEN Chronological(d, fund.fund_code)
              ELSE TruthyNavs(NavRows(d, fund.fund_code))
      rating == IF get_latest_rating(d, fund.fund_code) = None THEN 0
                ELSE FirstRating(get_latest_rating(d, fund.fund_code))
  IN /\ fund.return_1y > 0
     /\ HasStatistics(d, fund.fund_code)
     /\ MaxDrawdown(navs) <= thresholds.max_drawdown * 100
     /\ Volatility(navs) <= thresholds.volatility * 100
     /\ rating >= thresholds.min_rating

\* the instruments that pass, by return from the highest, the first 50
Reference(d, level, funds, chronological) ==
  Prefix(SortByReturn(SelectSeq(funds,
                                LAMBDA f : InReference(d, f, risk_thresholds(level),
                                                       chronological))),
         ShortlistSize)

\* one of the four tiers was screened in this step
TierScreened == ScreenRan /\ fund_expert_agent'.risk_level \in RISK_CONFIG_LEVELS

\* C31: for each tier the shortlist equals the reference result: the
\* instruments of the universe with a positive 1-year return, drawdown and
\* volatility within the tolerances of the tier, a rating of at least the
\* minimum (unrated only for the aggressive tier) and a size unknown or
\* within the band, sorted by return from the highest, the first 50.
C31_ShortlistIsReference ==
  [][TierScreened =>
       fund_expert_agent'.screened_funds
         = Reference(db, fund_expert_agent'.risk_level, call'.value, TRUE)]_vars

\* the same with the statistics as _get_performance_cache computes them,
\* over the valuations from the newest to the oldest
C31_ShortlistIsReferenceNewestFirst ==
  [][TierScreened =>
       fund_expert_agent'.screened_funds
         = Reference(db, fund_expert_agent'.risk_level, call'.value, FALSE)]_vars

\* the same, for rankings of at most 100 entries
C31_FirstHundredAreReference ==
  [][(TierScreened /\ Len(call'.value) <= CacheLimit) =>
       fund_expert_agent'.screened_funds
         = Reference(db, fund_expert_agent'.risk_level, call'.value, FALSE)]_vars

=============================================================================
